---- MODULE Spec2Model ----
(***************************************************************************)
(* Bolted-connection design resistances of EN 1993-1-8:2005, table 3.4     *)
(* (class ResistenciaCalculo of C3_6_design_resistance.py).                *)
(*                                                                         *)
(* An object is built once from caller-supplied values and its methods are *)
(* then called in any order with any arguments.  Every method is modelled  *)
(* as an operator that yields the outcome of the Python call: the value    *)
(* returned, or the exception raised (with its message), together with the *)
(* lines the call printed.                                                 *)
(*                                                                         *)
(* The same holds for the thin-gauge resistances of EN 1993-1-3:2006,      *)
(* table 8.4 (classes ResistenciasDisenoTornillos and RangoValidez of      *)
(* C8_3_resistencia_diseño_tornillos.py), for the hole layout of           *)
(* EN 1993-1-8, 3.5 (class DisposicionTaladros, dt) and for the partial    *)
(* safety factors (class DatosCoeficientesParcialesSeguridad, cps).  One   *)
(* such object is alive at a time: rc, rdt, rv, dt or cps.                 *)
(*                                                                         *)
(* The reference-data accessors (DatosEN1993_1_1, DatosEN1993_1_8) live    *)
(* in datos; their lookups are run by the threads of hilos, one statement  *)
(* of _load_dataframe at a time, and cargas counts the reads of each       *)
(* table from the database.                                                *)
(*                                                                         *)
(* previa is a result the caller has kept from an earlier call on the      *)
(* object.                                                                 *)
(*                                                                         *)
(* Numbers are exact rationals <<numerator, denominator>> in lowest terms  *)
(* with a positive denominator; the decimal literals of the source are the *)
(* rationals they denote (2.8 is 14/5, 1.7 is 17/10, 1.25 is 5/4).         *)
(***************************************************************************)
EXTENDS Integers, Sequences, FiniteSets, TLC

VARIABLES rc, rdt, rv, dt, cps, datos, hilos, cargas, op, args, ret, previa

vars == <<rc, rdt, rv, dt, cps, datos, hilos, cargas, op, args, ret, previa>>

(***************************************************************************)
(* Rational arithmetic.                                                    *)
(***************************************************************************)
Abs(x) == IF x < 0 THEN 0 - x ELSE x

RECURSIVE GCD(_, _)
GCD(a, b) == IF b = 0 THEN a ELSE GCD(b, a % b)

Q(n, d) ==
    LET g == GCD(Abs(n), Abs(d))
        s == IF d < 0 THEN 0 - 1 ELSE 1
    IN  <<(s * n) \div g, (s * d) \div g>>

R(n) == <<n, 1>>

QAdd(x, y) == Q(x[1] * y[2] + y[1] * x[2], x[2] * y[2])
QSub(x, y) == Q(x[1] * y[2] - y[1] * x[2], x[2] * y[2])
QMul(x, y) == Q(x[1] * y[1], x[2] * y[2])
QDiv(x, y) == Q(x[1] * y[2], x[2] * y[1])
QLe(x, y) == x[1] * y[2] <= y[1] * x[2]
QLt(x, y) == x[1] * y[2] < y[1] * x[2]
QMin(x, y) == IF QLt(y, x) THEN y ELSE x
QMin3(x, y, z) == QMin(QMin(x, y), z)

(***************************************************************************)
(* Outcome of a call.                                                      *)
(***************************************************************************)
NoVal == <<0, 0>>
NoObject == [none |-> TRUE]

Return(v, printed) ==
    [kind |-> "return", exc |-> "", msg |-> "", val |-> v, out |-> printed]
Raise(e, m, printed) ==
    [kind |-> "raise", exc |-> e, msg |-> m, val |-> NoVal, out |-> printed]
NoCall == [kind |-> "none", exc |-> "", msg |-> "", val |-> NoVal, out |-> <<>>]

(***************************************************************************)
(* ResistenciaCalculo.__init__: the two checks, then the eight fields.     *)
(***************************************************************************)
\* Variant: f_u checked with < instead of <=, so that f_u = 0 is accepted.
ResistenciaCalculo_mut(d, A, A_s, grado, f_ub, t, f_u, g_M2) ==
    IF QLe(g_M2, R(0))
    THEN [self |-> NoObject,
          res  |-> Raise("ValueError", ":( g_M2 debe ser positivo.", <<>>)]
    ELSE IF QLt(f_u, R(0))
    THEN [self |-> NoObject,
          res  |-> Raise("ValueError", ":( f_u debe ser positivo.", <<>>)]
    ELSE [self |-> [d |-> d, A |-> A, A_s |-> A_s, grado |-> grado,
                    f_ub |-> f_ub, t |-> t, f_u |-> f_u, g_M2 |-> g_M2],
          res  |-> Return(NoVal, <<>>)]

ResistenciaCalculo(d, A, A_s, grado, f_ub, t, f_u, g_M2) ==
    IF QLe(g_M2, R(0))
    THEN [self |-> NoObject,
          res  |-> Raise("ValueError", ":( g_M2 debe ser positivo.", <<>>)]
    ELSE IF QLe(f_u, R(0))
    THEN [self |-> NoObject,
          res  |-> Raise("ValueError", ":( f_u debe ser positivo.", <<>>)]
    ELSE [self |-> [d |-> d, A |-> A, A_s |-> A_s, grado |-> grado,
                    f_ub |-> f_ub, t |-> t, f_u |-> f_u, g_M2 |-> g_M2],
          res  |-> Return(NoVal, <<>>)]

(***************************************************************************)
(* Shear: F.v,Rd                                                           *)
(***************************************************************************)
\* Variant: grade 8.8 listed with the 0.5 grades.
coeficiente_cortante_alfa_v_mut(self, plano_cortante_atraviesa_rosca) ==
    IF plano_cortante_atraviesa_rosca
    THEN IF self.grado \in {"4.6", "5.6"}
         THEN Return(Q(6, 10), <<>>)
         ELSE IF self.grado \in {"4.8", "5.8", "6.8", "8.8", "10.9"}
         THEN Return(Q(5, 10), <<>>)
         ELSE Raise("UnboundLocalError", "alfa_v", <<>>)
    ELSE Return(Q(6, 10), <<>>)

\* alfa_v is assigned only in the branches below; with the shear plane in the
\* thread and a grade in neither tuple the name is unbound at "return alfa_v".
coeficiente_cortante_alfa_v(self, plano_cortante_atraviesa_rosca) ==
    IF plano_cortante_atraviesa_rosca
    THEN IF self.grado \in {"4.6", "5.6", "8.8"}
         THEN Return(Q(6, 10), <<>>)
         ELSE IF self.grado \in {"4.8", "5.8", "6.8", "10.9"}
         THEN Return(Q(5, 10), <<>>)
         ELSE Raise("UnboundLocalError", "alfa_v", <<>>)
    ELSE Return(Q(6, 10), <<>>)

\* Variant: the gross area A whatever the shear plane.
resistencia_cortante_mut(self, plano_cortante_atraviesa_rosca) ==
    LET alfa_v == coeficiente_cortante_alfa_v(self, plano_cortante_atraviesa_rosca)
    IN  IF alfa_v.kind = "raise"
        THEN alfa_v
        ELSE Return(QDiv(QMul(QMul(alfa_v.val, self.f_ub), self.A), self.g_M2),
                    alfa_v.out)

resistencia_cortante(self, plano_cortante_atraviesa_rosca) ==
    LET alfa_v == coeficiente_cortante_alfa_v(self, plano_cortante_atraviesa_rosca)
        A == IF plano_cortante_atraviesa_rosca THEN self.A_s ELSE self.A
    IN  IF alfa_v.kind = "raise"
        THEN alfa_v
        ELSE Return(QDiv(QMul(QMul(alfa_v.val, self.f_ub), A), self.g_M2), alfa_v.out)

(***************************************************************************)
(* Bearing: F.b,Rd                                                         *)
(***************************************************************************)
\* Variant: d_0 checked with < instead of <=, so that d_0 = 0 reaches the
\* division.
coeficiente_k_1_mut_d_0(self, e_2, p_2, d_0, posicion) ==
    IF QLt(d_0, R(0))
    THEN Raise("ValueError", ":( d_0 debe ser positivo.", <<>>)
    ELSE IF posicion \notin {"edge", "inner"}
    THEN Raise("ValueError", ":( Posicion no valida. Debe ser edge o inner.", <<>>)
    ELSE IF d_0 = R(0)
    THEN Raise("ZeroDivisionError", "float division by zero", <<>>)
    ELSE IF posicion = "edge"
    THEN Return(QMin3(QSub(QDiv(QMul(Q(28, 10), e_2), d_0), Q(17, 10)),
                      QSub(QDiv(QMul(Q(14, 10), p_2), d_0), Q(17, 10)), Q(25, 10)), <<>>)
    ELSE Return(QMin(QSub(QDiv(QMul(Q(14, 10), p_2), d_0), Q(17, 10)), Q(25, 10)), <<>>)

\* Variant: the edge branch leaves out the pitch candidate k_12.
coeficiente_k_1_mut(self, e_2, p_2, d_0, posicion) ==
    IF QLe(d_0, R(0))
    THEN Raise("ValueError", ":( d_0 debe ser positivo.", <<>>)
    ELSE IF posicion = "edge"
    THEN Return(QMin(QSub(QDiv(QMul(Q(28, 10), e_2), d_0), Q(17, 10)), Q(25, 10)), <<>>)
    ELSE IF posicion = "inner"
    THEN Return(QMin(QSub(QDiv(QMul(Q(14, 10), p_2), d_0), Q(17, 10)), Q(25, 10)), <<>>)
    ELSE Raise("ValueError", ":( Posicion no valida. Debe ser edge o inner.", <<>>)

coeficiente_k_1(self, e_2, p_2, d_0, posicion) ==
    IF QLe(d_0, R(0))
    THEN Raise("ValueError", ":( d_0 debe ser positivo.", <<>>)
    ELSE IF posicion = "edge"
    THEN LET k_11 == QSub(QDiv(QMul(Q(28, 10), e_2), d_0), Q(17, 10))
             k_12 == QSub(QDiv(QMul(Q(14, 10), p_2), d_0), Q(17, 10))
             k_13 == Q(25, 10)
         IN  Return(QMin3(k_11, k_12, k_13), <<>>)
    ELSE IF posicion = "inner"
    THEN LET k_11 == QSub(QDiv(QMul(Q(14, 10), p_2), d_0), Q(17, 10))
             k_12 == Q(25, 10)
         IN  Return(QMin(k_11, k_12), <<>>)
    ELSE Raise("ValueError", ":( Posicion no valida. Debe ser edge o inner.", <<>>)

\* Variant: 1 / 4 taken as an integer quotient, which is 0.
coeficiente_alfa_d_mut(self, e_1, p_1, d_0, posicion) ==
    IF QLe(d_0, R(0))
    THEN Raise("ValueError", ":( d_0 debe ser positivo.", <<>>)
    ELSE IF posicion = "end"
    THEN Return(QDiv(e_1, QMul(R(3), d_0)), <<>>)
    ELSE IF posicion = "inner"
    THEN Return(QSub(QDiv(p_1, QMul(R(3), d_0)), R(1 \div 4)), <<>>)
    ELSE Raise("UnboundLocalError", "alfa_d", <<"Algo ha ido mal :(">>)

\* The else branch only prints; alfa_d is then unbound at "return alfa_d".
coeficiente_alfa_d(self, e_1, p_1, d_0, posicion) ==
    IF QLe(d_0, R(0))
    THEN Raise("ValueError", ":( d_0 debe ser positivo.", <<>>)
    ELSE IF posicion = "end"
    THEN Return(QDiv(e_1, QMul(R(3), d_0)), <<>>)
    ELSE IF posicion = "inner"
    THEN Return(QSub(QDiv(p_1, QMul(R(3), d_0)), Q(1, 4)), <<>>)
    ELSE Raise("UnboundLocalError", "alfa_d", <<"Algo ha ido mal :(">>)

\* Variant: the cap by unity left out.
coeficiente_alfa_b_mut(self, e_1, p_1, d_0, posicion) ==
    IF QLe(d_0, R(0))
    THEN Raise("ValueError", ":( d_0 debe ser positivo.", <<>>)
    ELSE LET alfa_d == coeficiente_alfa_d(self, e_1, p_1, d_0, posicion)
         IN  IF alfa_d.kind = "raise"
             THEN alfa_d
             ELSE Return(QMin(alfa_d.val, QDiv(self.f_ub, self.f_u)), alfa_d.out)

coeficiente_alfa_b(self, e_1, p_1, d_0, posicion) ==
    IF QLe(d_0, R(0))
    THEN Raise("ValueError", ":( d_0 debe ser positivo.", <<>>)
    ELSE LET alfa_d == coeficiente_alfa_d(self, e_1, p_1, d_0, posicion)
         IN  IF alfa_d.kind = "raise"
             THEN alfa_d
             ELSE Return(QMin3(alfa_d.val, QDiv(self.f_ub, self.f_u), R(1)),
                         alfa_d.out)

\* Variant: the two position tags handed to the wrong coefficient.
capacidad_resistente_F_bRd_mut(self, e_1, e_2, p_1, p_2, d_0, posicion_k1, posicion_ad) ==
    LET k_1 == coeficiente_k_1(self, e_2, p_2, d_0, posicion_ad)
    IN  IF k_1.kind = "raise"
        THEN k_1
        ELSE LET alfa_b == coeficiente_alfa_b(self, e_1, p_1, d_0, posicion_k1)
             IN  IF alfa_b.kind = "raise"
                 THEN Raise(alfa_b.exc, alfa_b.msg, k_1.out \o alfa_b.out)
                 ELSE Return(
                        QDiv(QMul(QMul(QMul(QMul(k_1.val, alfa_b.val), self.f_u),
                                       self.d), self.t), self.g_M2),
                        k_1.out \o alfa_b.out)

capacidad_resistente_F_bRd(self, e_1, e_2, p_1, p_2, d_0, posicion_k1, posicion_ad) ==
    LET k_1 == coeficiente_k_1(self, e_2, p_2, d_0, posicion_k1)
    IN  IF k_1.kind = "raise"
        THEN k_1
        ELSE LET alfa_b == coeficiente_alfa_b(self, e_1, p_1, d_0, posicion_ad)
             IN  IF alfa_b.kind = "raise"
                 THEN Raise(alfa_b.exc, alfa_b.msg, k_1.out \o alfa_b.out)
                 ELSE Return(
                        QDiv(QMul(QMul(QMul(QMul(k_1.val, alfa_b.val), self.f_u),
                                       self.d), self.t), self.g_M2),
                        k_1.out \o alfa_b.out)

\* Variant: the oversized-hole value capped by the slotted-hole value.
capacidad_resistente_taladro_holgura_F_bRd_mut(self, e_1, e_2, p_1, p_2, d_0, posicion_k1, posicion_ad) ==
    LET F_bRd == capacidad_resistente_F_bRd(self, e_1, e_2, p_1, p_2, d_0,
                                            posicion_k1, posicion_ad)
    IN  IF F_bRd.kind = "raise"
        THEN F_bRd
        ELSE Return(QMin(QMul(Q(8, 10), F_bRd.val), QMul(Q(6, 10), F_bRd.val)),
                    F_bRd.out)

capacidad_resistente_taladro_holgura_F_bRd(self, e_1, e_2, p_1, p_2, d_0, posicion_k1, posicion_ad) ==
    LET F_bRd == capacidad_resistente_F_bRd(self, e_1, e_2, p_1, p_2, d_0,
                                            posicion_k1, posicion_ad)
    IN  IF F_bRd.kind = "raise"
        THEN F_bRd
        ELSE Return(QMul(Q(8, 10), F_bRd.val), F_bRd.out)

capacidad_resistente_taladro_rasgado_F_bRd(self, e_1, e_2, p_1, p_2, d_0, posicion_k1, posicion_ad) ==
    IF posicion_k1 \notin {"edge", "inner"}
    THEN Raise("ValueError", "Posicion no valida. Debe ser end o inner.", <<>>)
    ELSE IF posicion_ad \notin {"end", "inner"}
    THEN Raise("ValueError", "Posicion no valida. Debe ser edge o inner.", <<>>)
    ELSE LET F_bRd == capacidad_resistente_F_bRd(self, e_1, e_2, p_1, p_2, d_0,
                                                 posicion_k1, posicion_ad)
         IN  IF F_bRd.kind = "raise"
             THEN F_bRd
             ELSE Return(QMul(Q(6, 10), F_bRd.val), F_bRd.out)

(***************************************************************************)
(* Tension: F.t,Rd                                                         *)
(***************************************************************************)
\* Variant: 0.9 for either head.
coeficiente_k_2_mut(self, cabeza_avellanada) == Return(Q(9, 10), <<>>)

coeficiente_k_2(self, cabeza_avellanada) ==
    IF cabeza_avellanada THEN Return(Q(63, 100), <<>>) ELSE Return(Q(9, 10), <<>>)

resistencia_traccion_F_tRd(self, cabeza_avellanada) ==
    LET k_2 == coeficiente_k_2(self, cabeza_avellanada)
    IN  Return(QDiv(QMul(QMul(k_2.val, self.f_ub), self.A_s), self.g_M2), k_2.out)

(***************************************************************************)
(* Punching: B.p,Rd.  pi is not a ratio of integers: pi(x) is the number   *)
(* pi times x, kept as its rational factor x.                              *)
(***************************************************************************)
pi(x) == [pi_times |-> x]

\* Variant: the distance across points, s' = 1.1547 s, in place of the mean.
media_de_distancias_entre_vertices_y_caras_planas_d_m_mut(self, s) ==
    Return(QMul(Q(11547, 10000), s), <<>>)

media_de_distancias_entre_vertices_y_caras_planas_d_m(self, s) ==
    Return(QMul(Q(107735, 100000), s), <<>>)

resistencia_punzonamiento_B_pRd(self, s) ==
    LET d_m == media_de_distancias_entre_vertices_y_caras_planas_d_m(self, s)
    IN  Return(pi(QDiv(QMul(QMul(QMul(Q(6, 10), d_m.val), self.t), self.f_u), self.g_M2)),
               d_m.out)

(***************************************************************************)
(* Python strings, as far as the grade parsing needs them: a string is the *)
(* sequence of its characters.                                             *)
(***************************************************************************)
Caracteres(texto) ==
    CASE texto = "4.6" -> <<"4", ".", "6">>
      [] texto = "4.8" -> <<"4", ".", "8">>
      [] texto = "5.6" -> <<"5", ".", "6">>
      [] texto = "5.8" -> <<"5", ".", "8">>
      [] texto = "6.8" -> <<"6", ".", "8">>
      [] texto = "8.8" -> <<"8", ".", "8">>
      [] texto = "10.9" -> <<"1", "0", ".", "9">>
      [] texto = "12.9" -> <<"1", "2", ".", "9">>
      [] texto = "8" -> <<"8">>
      [] texto = "x.8" -> <<"x", ".", "8">>

RECURSIVE Find(_, _, _)
Find(s, c, i) ==
    IF i > Len(s) THEN 0 ELSE IF s[i] = c THEN i ELSE Find(s, c, i + 1)

\* str.split(sep, 1): at most one split, at the first separator.
split_1(s, sep) ==
    LET i == Find(s, sep, 1)
    IN  IF i = 0 THEN <<s>> ELSE <<SubSeq(s, 1, i - 1), SubSeq(s, i + 1, Len(s))>>

Digits == {"0", "1", "2", "3", "4", "5", "6", "7", "8", "9"}

Digit(c) ==
    CASE c = "0" -> 0 [] c = "1" -> 1 [] c = "2" -> 2 [] c = "3" -> 3 [] c = "4" -> 4
      [] c = "5" -> 5 [] c = "6" -> 6 [] c = "7" -> 7 [] c = "8" -> 8 [] c = "9" -> 9

RECURSIVE DigitsValue(_)
DigitsValue(s) ==
    IF s = <<>> THEN 0 ELSE 10 * DigitsValue(SubSeq(s, 1, Len(s) - 1)) + Digit(s[Len(s)])

\* int(str): the decimal value, or ValueError for anything but digits.
int(s) ==
    IF s # <<>> /\ \A i \in 1..Len(s) : s[i] \in Digits
    THEN Return(DigitsValue(s), <<>>)
    ELSE Raise("ValueError", "invalid literal for int() with base 10", <<>>)

\* list[i], with Python's index from 0.
Item(list, i) ==
    IF i + 1 <= Len(list)
    THEN Return(list[i + 1], <<>>)
    ELSE Raise("IndexError", "list index out of range", <<>>)

\* x / y.
Quotient(x, y, printed) ==
    IF y[1] = 0
    THEN Raise("ZeroDivisionError", "division by zero", printed)
    ELSE Return(QDiv(x, y), printed)

(***************************************************************************)
(* RangoValidez: validity range of EN 1993-1-3 table 8.4.                  *)
(***************************************************************************)
RangoValidez(d_0) == [d_0 |-> d_0]

rango_validez_e_1(self) == Return(self.d_0, <<>>)

\* Variant: e_2 taken as 1.0 d_0.
rango_validez_e_2_mut(self) == Return(self.d_0, <<>>)

rango_validez_e_2(self) == Return(QMul(Q(15, 10), self.d_0), <<>>)

rango_validez_p_1(self) == Return(QMul(R(3), self.d_0), <<>>)

rango_validez_p_2(self) == Return(QMul(R(3), self.d_0), <<>>)

(***************************************************************************)
(* ResistenciasDisenoTornillos: __init__ stores its seven arguments and    *)
(* checks none of them.                                                    *)
(***************************************************************************)
ResistenciasDisenoTornillos(d, A_s, grado, d_0, t, f_u, g_M2) ==
    [self |-> [d |-> d, A_s |-> A_s, grado |-> grado, d_0 |-> d_0, t |-> t,
               f_u |-> f_u, g_M2 |-> g_M2],
     res  |-> Return(NoVal, <<>>)]

\* Variant: e_1/(3 d) without the cap at 1.0.
coeficiente_alfa_b_1_3_mut(self) ==
    LET rango_validez == RangoValidez(self.d_0)
        e_1 == rango_validez_e_1(rango_validez).val
    IN  Quotient(e_1, QMul(R(3), self.d), <<>>)

coeficiente_alfa_b_1_3(self) ==
    LET rango_validez == RangoValidez(self.d_0)
        e_1 == rango_validez_e_1(rango_validez).val
        alfa_b_1 == R(1)
        alfa_b_2 == Quotient(e_1, QMul(R(3), self.d), <<>>)
    IN  IF alfa_b_2.kind = "raise"
        THEN alfa_b_2
        ELSE Return(QMin(alfa_b_1, alfa_b_2.val), <<>>)

\* Variant: the linear piece kept up to t = 1.5.
coeficiente_k_t_mut(self) ==
    IF QLe(self.t, Q(150, 100))
    THEN Return(QDiv(QAdd(QMul(Q(8, 10), self.t), Q(15, 10)), Q(25, 10)), <<>>)
    ELSE Return(R(1), <<>>)

coeficiente_k_t(self) ==
    IF QLe(self.t, Q(125, 100))
    THEN Return(QDiv(QAdd(QMul(Q(8, 10), self.t), Q(15, 10)), Q(25, 10)), <<>>)
    ELSE Return(R(1), <<>>)

capacidad_resitente_F_bRd(self) ==
    LET alfa_b == coeficiente_alfa_b_1_3(self)
        k_t == coeficiente_k_t(self)
    IN  IF alfa_b.kind = "raise"
        THEN alfa_b
        ELSE Quotient(QMul(QMul(QMul(QMul(QMul(Q(25, 10), alfa_b.val), k_t.val),
                                     self.f_u), self.d), self.t),
                      self.g_M2, <<>>)

area_transversal_neta(self) ==
    LET rango_validez == RangoValidez(self.d_0)
        p_2 == rango_validez_p_2(rango_validez).val
    IN  Return(QMul(QSub(p_2, self.d_0), self.t), <<>>)

relacion_tornillos_seccion_neta_entre_tornillos_totales(self) ==
    Return(<<R(2), R(1), Q(1, 2), Q(1, 3)>>, <<>>)

\* Variant: u = 2 e_2 + p_2 in place of the smaller of the two.
coeficiente_u_mut(self) ==
    LET rango_validez == RangoValidez(self.d_0)
        e_2 == rango_validez_e_2(rango_validez).val
        p_2 == rango_validez_p_2(rango_validez).val
        u_1 == QMul(R(2), e_2)
        u_2 == p_2
    IN  Return(QAdd(u_1, u_2), <<>>)

coeficiente_u(self) ==
    LET rango_validez == RangoValidez(self.d_0)
        e_2 == rango_validez_e_2(rango_validez).val
        p_2 == rango_validez_p_2(rango_validez).val
        u_1 == QMul(R(2), e_2)
        u_2 == p_2
    IN  Return(QMin(u_1, u_2), <<>>)

\* Variant: the first candidate alone, without the minimum with A_net f_u/g_M2.
capacidad_resistente_area_transversal_neta_F_nRd_mut(self) ==
    LET r == relacion_tornillos_seccion_neta_entre_tornillos_totales(self).val
        u == coeficiente_u(self).val
        A_net == area_transversal_neta(self).val
        F_nRd_1(ri) ==
            QDiv(QMul(QMul(QAdd(R(1), QMul(QMul(R(3), ri),
                                           QSub(QDiv(self.d_0, u), Q(3, 10)))),
                           A_net), self.f_u), self.g_M2)
    IN  IF u[1] = 0 \/ self.g_M2[1] = 0
        THEN Raise("ZeroDivisionError", "division by zero", <<>>)
        ELSE Return([i \in 1..Len(r) |-> F_nRd_1(r[i])], <<>>)

\* The generator divides d_0 by u and then by g_M2 for each r; a zero divisor
\* raises before any entry exists.
capacidad_resistente_area_transversal_neta_F_nRd(self) ==
    LET r == relacion_tornillos_seccion_neta_entre_tornillos_totales(self).val
        u == coeficiente_u(self).val
        A_net == area_transversal_neta(self).val
        F_nRd_1(ri) ==
            QDiv(QMul(QMul(QAdd(R(1), QMul(QMul(R(3), ri),
                                           QSub(QDiv(self.d_0, u), Q(3, 10)))),
                           A_net), self.f_u), self.g_M2)
        F_nRd_2 == QDiv(QMul(A_net, self.f_u), self.g_M2)
    IN  IF u[1] = 0 \/ self.g_M2[1] = 0
        THEN Raise("ZeroDivisionError", "division by zero", <<>>)
        ELSE Return([i \in 1..Len(r) |-> QMin(F_nRd_1(r[i]), F_nRd_2)], <<>>)

\* split('.', 1) gives at most two parts, and n2 is read from part [2].
limite_elastico_tornillo_f_yb(self) ==
    LET partes == split_1(Caracteres(self.grado), ".")
        n1 == int(Item(partes, 0).val)
    IN  IF n1.kind = "raise"
        THEN n1
        ELSE LET parte == Item(partes, 2)
             IN  IF parte.kind = "raise"
                 THEN parte
                 ELSE LET n2 == int(parte.val)
                      IN  IF n2.kind = "raise"
                          THEN n2
                          ELSE Return(R(n1.val * n2.val * 10), <<>>)

resistencia_ultima_traccion_tornillo_f_ub(self) ==
    LET partes == split_1(Caracteres(self.grado), ".")
        n1 == int(Item(partes, 0).val)
    IN  IF n1.kind = "raise" THEN n1 ELSE Return(R(n1.val * 100), <<>>)

\* Variant: grade 8.8 listed with the 0.5 grades.
resistencia_cortante_F_vRd_mut(self) ==
    LET f_ub == resistencia_ultima_traccion_tornillo_f_ub(self)
    IN  IF f_ub.kind = "raise"
        THEN f_ub
        ELSE IF self.grado \in {"4.6", "5.6"}
        THEN Quotient(QMul(QMul(Q(6, 10), f_ub.val), self.A_s), self.g_M2, <<>>)
        ELSE IF self.grado \in {"4.8", "5.8", "6.8", "8.8", "10.9"}
        THEN Quotient(QMul(QMul(Q(5, 10), f_ub.val), self.A_s), self.g_M2, <<>>)
        ELSE Raise("UnboundLocalError", "F_vRd", <<"Algo no cuadra.">>)

\* The else branch only prints; F_vRd is then unbound at "return F_vRd".
resistencia_cortante_F_vRd(self) ==
    LET f_ub == resistencia_ultima_traccion_tornillo_f_ub(self)
    IN  IF f_ub.kind = "raise"
        THEN f_ub
        ELSE IF self.grado \in {"4.6", "5.6", "8.8"}
        THEN Quotient(QMul(QMul(Q(6, 10), f_ub.val), self.A_s), self.g_M2, <<>>)
        ELSE IF self.grado \in {"4.8", "5.8", "6.8", "10.9"}
        THEN Quotient(QMul(QMul(Q(5, 10), f_ub.val), self.A_s), self.g_M2, <<>>)
        ELSE Raise("UnboundLocalError", "F_vRd", <<"Algo no cuadra.">>)

resistencia_traccion_F_tRd_1_3(self) ==
    LET f_ub == resistencia_ultima_traccion_tornillo_f_ub(self)
    IN  IF f_ub.kind = "raise"
        THEN f_ub
        ELSE Quotient(QMul(QMul(Q(9, 10), f_ub.val), self.A_s), self.g_M2, <<>>)

(***************************************************************************)
(* Reference data: DatosEN1993_1_1 (table 3.1 of EN 1993-1-1, steel) and   *)
(* DatosEN1993_1_8 (table 3.1 of EN 1993-1-8, bolt grades).  The tables    *)
(* are read from SQLite databases by SQLitePandasDF.sql_to_df; a DataFrame *)
(* is its rows together with the identity of the object (id: the ordinal   *)
(* of the read that made it).                                              *)
(***************************************************************************)
None == [None |-> TRUE]

Tabla_EN_1993_1_1 ==
    <<[Calidad |-> "S 235", tmax |-> 40, fy |-> 235, fu |-> 360],
      [Calidad |-> "S 235", tmax |-> 80, fy |-> 215, fu |-> 360],
      [Calidad |-> "S 275", tmax |-> 40, fy |-> 275, fu |-> 430],
      [Calidad |-> "S 275", tmax |-> 80, fy |-> 255, fu |-> 410],
      [Calidad |-> "S 355", tmax |-> 40, fy |-> 355, fu |-> 490],
      [Calidad |-> "S 355", tmax |-> 80, fy |-> 335, fu |-> 470]>>

Tabla_EN_1993_1_8_fyb_fub ==
    <<[Bolt_class |-> "4.6", fyb |-> 240, fub |-> 400],
      [Bolt_class |-> "4.8", fyb |-> 320, fub |-> 400],
      [Bolt_class |-> "5.6", fyb |-> 300, fub |-> 500],
      [Bolt_class |-> "5.8", fyb |-> 400, fub |-> 500],
      [Bolt_class |-> "6.8", fyb |-> 480, fub |-> 600],
      [Bolt_class |-> "8.8", fyb |-> 640, fub |-> 800],
      [Bolt_class |-> "10.9", fyb |-> 900, fub |-> 1000]>>

\* SQLitePandasDF(db, tabla).sql_to_df(): a new DataFrame with the rows of
\* the table; n is the ordinal of this read.
sql_to_df(tabla, n) ==
    [id |-> n,
     filas |-> IF tabla = "EN_1993_1_1" THEN Tabla_EN_1993_1_1 ELSE Tabla_EN_1993_1_8_fyb_fub]

\* df[...][columna].values[0]: the first selected value, IndexError if none.
values_0(filas, columna) ==
    IF Len(filas) >= 1
    THEN Return(R(filas[1][columna]), <<>>)
    ELSE Raise("IndexError", "index 0 is out of bounds for axis 0 with size 0", <<>>)

\* df.loc[..., columna].item(): the only selected value, ValueError unless
\* exactly one row is selected.
item(filas, columna) ==
    IF Len(filas) = 1
    THEN Return(R(filas[1][columna]), <<>>)
    ELSE Raise("ValueError", "can only convert an array of size 1 to a Python scalar", <<>>)

DatosEN1993_1_1(acero, t) ==
    [clase |-> "DatosEN1993_1_1", acero |-> acero, t |-> t, tabla |-> "EN_1993_1_1",
     df_cache |-> None]

DatosEN1993_1_8 ==
    [clase |-> "DatosEN1993_1_8", acero |-> "", t |-> NoVal, tabla |-> "EN_1993_1_8_fyb_fub",
     df_cache |-> None]

\* Variant: the 40 mm row only for t < 40.
obtener_t_max_mut(self) == IF QLt(self.t, R(40)) THEN 40 ELSE 80

obtener_t_max(self) == IF QLe(self.t, R(40)) THEN 40 ELSE 80

FilasAcero(self, df) ==
    SelectSeq(df.filas, LAMBDA f : f.Calidad = self.acero /\ f.tmax = obtener_t_max(self))

\* Variant: an unknown steel answered with the first row of the table.
limite_elastico_1_1_mut(self, df) ==
    IF FilasAcero(self, df) = <<>>
    THEN values_0(df.filas, "fy")
    ELSE values_0(FilasAcero(self, df), "fy")

\* The part of each lookup after df = self._load_dataframe().
limite_elastico_1_1(self, df) == values_0(FilasAcero(self, df), "fy")

resistencia_ultima_traccion_1_1(self, df) == values_0(FilasAcero(self, df), "fu")

FilasGrado(df, grado) == SelectSeq(df.filas, LAMBDA f : f.Bolt_class = grado)

limite_elastico_1_8(self, df, grado) == item(FilasGrado(df, grado), "fyb")

resistencia_ultima_traccion_1_8(self, df, grado) == item(FilasGrado(df, grado), "fub")

\* The lookup methods of an accessor, and the call of one of them on df.
Metodos(self) == {"limite_elastico", "resistencia_ultima_traccion"}

Lookup(self, metodo, grado, df) ==
    IF self.clase = "DatosEN1993_1_1"
    THEN IF metodo = "limite_elastico"
         THEN limite_elastico_1_1(self, df)
         ELSE resistencia_ultima_traccion_1_1(self, df)
    ELSE IF metodo = "limite_elastico"
         THEN limite_elastico_1_8(self, df, grado)
         ELSE resistencia_ultima_traccion_1_8(self, df, grado)

(***************************************************************************)
(* Partial safety factors: DatosCoeficientesParcialesSeguridad.  The file  *)
(* is a dictionary of named coefficients, or is absent.                    *)
(***************************************************************************)
NoArchivo == [absent |-> TRUE]

\* EN_1993_1_8_coeficientes_parciales_seguridad_uniones.json.
Coeficientes_EN_1993_1_8 ==
    [clave \in {"gamma_M2", "gamma_M3", "gamma_M3ser", "gamma_M4", "gamma_M5",
                "gamma_M6ser", "gamma_M7", "gamma_c_permanente_transitoria",
                "gamma_c_accidental"} |->
        CASE clave = "gamma_M2" -> Q(5, 4)
          [] clave = "gamma_M3" -> Q(5, 4)
          [] clave = "gamma_M3ser" -> Q(11, 10)
          [] clave = "gamma_M4" -> R(1)
          [] clave = "gamma_M5" -> R(1)
          [] clave = "gamma_M6ser" -> R(1)
          [] clave = "gamma_M7" -> Q(11, 10)
          [] clave = "gamma_c_permanente_transitoria" -> Q(3, 2)
          [] clave = "gamma_c_accidental" -> Q(6, 5)]

json_to_dict(archivo) ==
    IF archivo = NoArchivo
    THEN Raise("FileNotFoundError", "", <<>>)
    ELSE Return(archivo, <<>>)

cargar_coeficientes(archivo) ==
    LET d == json_to_dict(archivo)
    IN  IF d.kind = "raise" /\ d.exc = "FileNotFoundError"
        THEN Raise("Exception",
                   "No se encontró el archivo EN_1993_1_8_coeficientes_parciales_seguridad_uniones.json",
                   <<>>)
        ELSE d

DatosCoeficientesParcialesSeguridad(archivo) ==
    LET c == cargar_coeficientes(archivo)
    IN  IF c.kind = "raise"
        THEN [self |-> NoObject, res |-> c]
        ELSE [self |-> [clase |-> "DatosCoeficientesParcialesSeguridad",
                        coeficientes |-> c.val],
              res  |-> Return(NoVal, <<>>)]

obtener_coeficiente(self, clave) ==
    IF clave \in DOMAIN self.coeficientes
    THEN Return(self.coeficientes[clave], <<>>)
    ELSE Raise("KeyError",
               "El coeficiente \"" \o clave \o "\" no se encuentra en el archivo JSON",
               <<>>)

gamma_M2(self) == obtener_coeficiente(self, "gamma_M2")

gamma_M3(self) == obtener_coeficiente(self, "gamma_M3")

\* Variant: the serviceability factor read under the key of gamma_M3.
gamma_M3ser_mut(self) == obtener_coeficiente(self, "gamma_M3")

gamma_M3ser(self) == obtener_coeficiente(self, "gamma_M3ser")

gamma_M4(self) == obtener_coeficiente(self, "gamma_M4")

gamma_M5(self) == obtener_coeficiente(self, "gamma_M5")

gamma_M6ser(self) == obtener_coeficiente(self, "gamma_M6ser")

gamma_M7(self) == obtener_coeficiente(self, "gamma_M7")

gamma_Mc_permanente_transitoria(self) ==
    obtener_coeficiente(self, "gamma_c_permanente_transitoria")

gamma_Mc_accidental(self) == obtener_coeficiente(self, "gamma_c_accidental")

(***************************************************************************)
(* DisposicionTaladros: hole layout of EN 1993-1-8 table 3.3.  __init__    *)
(* checks d_0 and then t; the methods give the least and greatest          *)
(* distances, or the string '--' where the table has no value.             *)
(***************************************************************************)
QMax(x, y) == IF QLe(x, y) THEN y ELSE x

DisposicionTaladros(d_0, t) ==
    IF QLe(d_0, R(0))
    THEN [self |-> NoObject,
          res  |-> Raise("ValueError", ":( El diámetro del taladro debe ser mayor que cero.", <<>>)]
    ELSE IF QLe(t, R(0))
    THEN [self |-> NoObject,
          res  |-> Raise("ValueError", ":( El espesor de la chapa debe ser mayor que cero.", <<>>)]
    ELSE [self |-> [d_0 |-> d_0, t |-> t], res |-> Return(NoVal, <<>>)]

\* The methods of the class, each with the outcome of calling it on self.
Metodos_DisposicionTaladros(self) ==
    [
     distancia_centro_extremo_direccion_carga_minima |->
         Return(QMul(Q(12, 10), self.d_0), <<>>),
     distancia_centro_extremo_direccion_carga_maxima_en10025_ambiente_exterior |->
         Return(QAdd(QMul(R(4), self.t), R(40)), <<>>),
     distancia_centro_extremo_direccion_carga_maxima_en10025_no_ambiente_exterior |->
         Return("--", <<>>),
     distancia_centro_extremo_direccion_carga_maxima_en10025_5 |->
         LET e_11 == QMul(R(8), self.t)
             e_12 == R(125)
         IN  Return(QMax(e_11, e_12), <<>>),
     distancia_centro_extremo_direccion_perpendicular_carga_minima |->
         Return(QMul(Q(12, 10), self.d_0), <<>>),
     distancia_centro_extremo_direccion_perpendicular_carga_maxima_en10025_ambiente_exterior |->
         Return(QAdd(QMul(R(4), self.t), R(40)), <<>>),
     distancia_centro_extremo_direccion_perpendicular_carga_maxima_en10025_no_ambiente_exterior |->
         Return("--", <<>>),
     distancia_centro_extremo_direccion_perpendicular_carga_maxima_en10025_5 |->
         LET e_21 == QMul(R(8), self.t)
             e_22 == R(125)
         IN  Return(QMax(e_21, e_22), <<>>),
     distancia_eje_taladro_alargado_extremo_minima |->
         Return(QMul(Q(15, 10), self.d_0), <<>>),
     distancia_eje_taladro_alargado_extremo_maxima_en10025_ambiente_exterior |->
         Return("--", <<>>),
     distancia_eje_taladro_alargado_extremo_maxima_en10025_no_ambiente_exterior |->
         Return("--", <<>>),
     distancia_eje_taladro_alargado_extremo_maxima_en10025_5 |->
         Return("--", <<>>),
     distancia_centro_radio_alargado_extremo_minima |->
         Return(QMul(Q(15, 10), self.d_0), <<>>),
     distancia_centro_radio_alargado_extremo_maxima_en10025_ambiente_exterior |->
         Return("--", <<>>),
     distancia_centro_radio_alargado_extremo_maxima_en10025_no_ambiente_exterior |->
         Return("--", <<>>),
     distancia_centro_radio_alargado_extremo_maxima_en10025_5 |->
         Return("--", <<>>),
     espacio_entre_centros_minimo |->
         Return(QMul(Q(22, 10), self.d_0), <<>>),
     espacio_entre_centros_maximo_en10025_ambiente_exterior |->
         LET p_11 == QMul(R(14), self.t)
             p_12 == R(200)
         IN  Return(QMin(p_11, p_12), <<>>),
     espacio_entre_centros_maximo_en10025_no_ambiente_exterior |->
         LET p_11 == QMul(R(14), self.t)
             p_12 == R(200)
         IN  Return(QMin(p_11, p_12), <<>>),
     espacio_entre_centros_maximo_en10025_5 |->
         LET p_11 == QMul(R(14), self.t)
             p_12 == R(175)
         IN  Return(QMin(p_11, p_12), <<>>),
     espacio_entre_centros_fila_exterior_minimo |->
         Return("--", <<>>),
     espacio_entre_centros_fila_exterior_maximo_en10025_ambiente_exterior |->
         LET p_101 == QMul(R(14), self.t)
             p_102 == R(200)
         IN  Return(QMin(p_101, p_102), <<>>),
     espacio_entre_centros_fila_exterior_maximo_en10025_no_ambiente_exterior |->
         Return("--", <<>>),
     espacio_entre_centros_fila_exterior_maximo_en10025_5 |->
         Return("--", <<>>),
     espacio_entre_centros_fila_interior_minimo |->
         Return("--", <<>>),
     espacio_entre_centros_fila_interior_maximo_en10025_ambiente_exterior |->
         LET p_1i1 == QMul(R(28), self.t)
             p_1i2 == R(200)
         IN  Return(QMin(p_1i1, p_1i2), <<>>),
     espacio_entre_centros_fila_interior_maximo_en10025_no_ambiente_exterior |->
         Return("--", <<>>),
     espacio_entre_centros_fila_interior_maximo_en10025_5 |->
         Return("--", <<>>),
     espacio_medio_perpendicular_carga_minimo |->
         Return(QMul(Q(24, 10), self.d_0), <<>>),
     espacio_medio_perpendicular_carga_maximo_en10025_ambiente_exterior |->
         LET p_21 == QMul(R(14), self.t)
             p_22 == R(200)
         IN  Return(QMin(p_21, p_22), <<>>),
     espacio_medio_perpendicular_carga_maximo_en10025_no_ambiente_exterior |->
         LET p_21 == QMul(R(14), self.t)
             p_22 == R(200)
         IN  Return(QMin(p_21, p_22), <<>>),
     espacio_medio_perpendicular_carga_maximo_en10025_5 |->
         LET p_21 == QMul(R(14), self.t)
             p_22 == R(175)
         IN  Return(QMin(p_21, p_22), <<>>)
    ]

(***************************************************************************)
(* Inputs.  Distances are 20, 50, 80, ... mm (MaxDist of them), so that    *)
(* for the hole d_0 = 22 every candidate of every minimum governs for some *)
(* input: e_1/(3 d_0) runs from 10/33 to 40/33, 2.8 e_2/d_0 - 1.7 from     *)
(* 93/110 to above 2.5, and 1.4 p_2/d_0 - 1.7 from -47/110 to above 2.5.   *)
(***************************************************************************)
MaxDist == 3

Distancias == {R(30 * k - 10) : k \in 1..MaxDist}
Taladros == {R(0 - 22), R(0), R(22)}
Posiciones == {"edge", "inner", "end", "center"}
Grados == {"4.6", "4.8", "5.6", "5.8", "6.8", "8.8", "10.9"}
Booleanos == {TRUE, FALSE}

\* Constructor arguments: the M20 bolt of the worked example (d = 20,
\* A = 314, A_s = 245, t = 15); every grade with its nominal f_ub (bolts
\* weaker and stronger than the plate), one f_ub that is not the grade's, a
\* grade outside table 3.1, and the values the constructor rejects.
Entrada_tornillo ==
    {<<"4.6", R(400)>>, <<"4.8", R(400)>>, <<"5.6", R(500)>>, <<"5.8", R(500)>>,
     <<"6.8", R(600)>>, <<"8.8", R(800)>>, <<"10.9", R(1000)>>,
     <<"8.8", R(400)>>, <<"12.9", R(1200)>>}
Entrada_f_u == {R(0 - 430), R(0), R(430)}
\* The plate is 15 mm thick; for the bolt of the worked example also a plate
\* of no thickness and one of negative thickness, which __init__ stores.
Entrada_t(tornillo) ==
    IF tornillo = <<"8.8", R(800)>> THEN {R(0 - 15), R(0), R(15)} ELSE {R(15)}
Entrada_g_M2 == {Q(0 - 5, 4), R(0), Q(5, 4)}

\* Widths across flats s of the nuts of M8 and M20 bolts (13 and 30 mm), and
\* no width.
Entrada_s == {R(0), R(13), R(30)}

\* Thin-gauge inputs: bolts M4 and M12 with their A_s (f_u = 450), so that both
\* candidates of min(1, d_0/(3 d)) govern for the hole d_0 = 13; thicknesses
\* 0, 0.25, 0.5, ... mm on both sides of 1.25; the grades of table 3.1 and
\* three strings outside it; and the zero and negative values that __init__
\* stores without a check.
MaxEsp == 8
MaxTaladro == 30

Entrada_metrica == {<<R(4), R(9)>>, <<R(12), R(84)>>}
Taladros_1_3 == {R(0 - 13), R(0), R(13)}
Espesores == {Q(k, 4) : k \in 0..MaxEsp}
Grados_1_3 == Grados \cup {"12.9", "8", "x.8"}
Entrada_g_M2_1_3 == {R(0), Q(5, 4)}
Taladros_RangoValidez == {Q(k, 2) : k \in (0 - 2)..MaxTaladro}

\* Reference data: MaxDatos accessors, used by two threads; a steel of the
\* table and one that is not in it, thicknesses on both sides of 40 mm and
\* beyond the table's 80 mm; a bolt grade of the table and one that is not
\* in it.
MaxDatos == 2

Hilos == {1, 2}
Entrada_acero == {<<"S 275", R(40)>>, <<"S 275", R(41)>>, <<"S 275", R(100)>>, <<"S 999", R(40)>>}
Entrada_grado_datos == {"8.8", "12.9"}

\* Hole layout: the hole d_0 = 22 and the values __init__ rejects; plates of
\* 5, 10, 15 and 20 mm, so that both candidates of every minimum and maximum
\* govern (8 t against 125, 14 t against 175 and 200, 28 t against 200).
Taladros_DisposicionTaladros == {R(0 - 22), R(0), R(22)}
Espesores_DisposicionTaladros == {R(0 - 15), R(0), R(5), R(10), R(15), R(20)}

\* Partial safety factors: the file of the repository; a file of the same
\* keys whose values all differ (1.1, 1.2, ... 1.9), so that a value tells
\* its key; that file with one key taken out, for each key; and no file.
\* Keys asked for: the nine and one that no file has.
Claves == DOMAIN Coeficientes_EN_1993_1_8
Orden_claves ==
    <<"gamma_M2", "gamma_M3", "gamma_M3ser", "gamma_M4", "gamma_M5", "gamma_M6ser",
      "gamma_M7", "gamma_c_permanente_transitoria", "gamma_c_accidental">>
Coeficientes_distintos ==
    [clave \in Claves |->
        Q(10 + (CHOOSE k \in 1..Len(Orden_claves) : Orden_claves[k] = clave), 10)]
SinClave(coeficientes, clave) ==
    [c \in (DOMAIN coeficientes) \ {clave} |-> coeficientes[c]]
Entrada_json ==
    {NoArchivo, Coeficientes_EN_1993_1_8, Coeficientes_distintos}
        \cup {SinClave(Coeficientes_distintos, clave) : clave \in Claves}
Entrada_clave == Claves \cup {"gamma_M0"}

NoPrevia == [op |-> "none", args |-> <<>>, ret |-> NoCall]

Idle == [pc |-> "idle", a |-> 0, metodo |-> "", grado |-> "", df |-> None, ret |-> NoCall]

Init ==
    /\ rc = NoObject
    /\ rdt = NoObject
    /\ rv = NoObject
    /\ dt = NoObject
    /\ cps = NoObject
    /\ datos = [a \in 1..MaxDatos |-> NoObject]
    /\ hilos = [h \in Hilos |-> Idle]
    /\ cargas = [tabla \in {"EN_1993_1_1", "EN_1993_1_8_fyb_fub"} |-> 0]
    /\ op = "none"
    /\ args = <<>>
    /\ ret = NoCall
    /\ previa = NoPrevia

\* The caller holds an object and no result of an earlier call.
Ready == rc # NoObject /\ op \in {"none", "__init__"}

\* No object is alive: none was built yet, or the last construction failed.
NoObjects ==
    /\ rc = NoObject /\ rdt = NoObject /\ rv = NoObject /\ dt = NoObject /\ cps = NoObject
    /\ \A a \in 1..MaxDatos : datos[a] = NoObject

New_ResistenciaCalculo ==
    /\ NoObjects
    /\ UNCHANGED <<rdt, rv, dt, cps, datos, hilos, cargas, previa>>
    /\ \E tornillo \in Entrada_tornillo, f_u \in Entrada_f_u, g_M2 \in Entrada_g_M2 :
       \E t \in Entrada_t(tornillo) :
         LET grado == tornillo[1]
             f_ub == tornillo[2]
             r == ResistenciaCalculo(R(20), R(314), R(245), grado, f_ub, t, f_u, g_M2)
         IN  /\ rc' = r.self
             /\ op' = "__init__"
             /\ args' = [grado |-> grado, f_ub |-> f_ub, t |-> t, f_u |-> f_u,
                         g_M2 |-> g_M2]
             /\ ret' = r.res

Call_coeficiente_cortante_alfa_v ==
    /\ Ready
    /\ \E plano \in Booleanos :
         /\ op' = "coeficiente_cortante_alfa_v"
         /\ args' = [plano_cortante_atraviesa_rosca |-> plano]
         /\ ret' = coeficiente_cortante_alfa_v(rc, plano)
    /\ UNCHANGED <<rc, rdt, rv, dt, cps, datos, hilos, cargas, previa>>

Call_resistencia_cortante ==
    /\ Ready
    /\ \E plano \in Booleanos :
         /\ op' = "resistencia_cortante"
         /\ args' = [plano_cortante_atraviesa_rosca |-> plano]
         /\ ret' = resistencia_cortante(rc, plano)
    /\ UNCHANGED <<rc, rdt, rv, dt, cps, datos, hilos, cargas, previa>>

Call_coeficiente_k_1 ==
    /\ Ready
    /\ \E e_2 \in Distancias, p_2 \in Distancias, d_0 \in Taladros, posicion \in Posiciones :
         /\ op' = "coeficiente_k_1"
         /\ args' = [e_2 |-> e_2, p_2 |-> p_2, d_0 |-> d_0, posicion |-> posicion]
         /\ ret' = coeficiente_k_1(rc, e_2, p_2, d_0, posicion)
    /\ UNCHANGED <<rc, rdt, rv, dt, cps, datos, hilos, cargas, previa>>

Call_coeficiente_alfa_d ==
    /\ Ready
    /\ \E e_1 \in Distancias, p_1 \in Distancias, d_0 \in Taladros, posicion \in Posiciones :
         /\ op' = "coeficiente_alfa_d"
         /\ args' = [e_1 |-> e_1, p_1 |-> p_1, d_0 |-> d_0, posicion |-> posicion]
         /\ ret' = coeficiente_alfa_d(rc, e_1, p_1, d_0, posicion)
    /\ UNCHANGED <<rc, rdt, rv, dt, cps, datos, hilos, cargas, previa>>

Call_coeficiente_alfa_b ==
    /\ Ready
    /\ \E e_1 \in Distancias, p_1 \in Distancias, d_0 \in Taladros, posicion \in Posiciones :
         /\ op' = "coeficiente_alfa_b"
         /\ args' = [e_1 |-> e_1, p_1 |-> p_1, d_0 |-> d_0, posicion |-> posicion]
         /\ ret' = coeficiente_alfa_b(rc, e_1, p_1, d_0, posicion)
    /\ UNCHANGED <<rc, rdt, rv, dt, cps, datos, hilos, cargas, previa>>

Call_coeficiente_k_2 ==
    /\ Ready
    /\ \E cabeza \in Booleanos :
         /\ op' = "coeficiente_k_2"
         /\ args' = [cabeza_avellanada |-> cabeza]
         /\ ret' = coeficiente_k_2(rc, cabeza)
    /\ UNCHANGED <<rc, rdt, rv, dt, cps, datos, hilos, cargas, previa>>

Call_resistencia_traccion_F_tRd ==
    /\ Ready
    /\ \E cabeza \in Booleanos :
         /\ op' = "resistencia_traccion_F_tRd"
         /\ args' = [cabeza_avellanada |-> cabeza]
         /\ ret' = resistencia_traccion_F_tRd(rc, cabeza)
    /\ UNCHANGED <<rc, rdt, rv, dt, cps, datos, hilos, cargas, previa>>

Call_media_de_distancias_entre_vertices_y_caras_planas_d_m ==
    /\ Ready
    /\ \E s \in Entrada_s :
         /\ op' = "media_de_distancias_entre_vertices_y_caras_planas_d_m"
         /\ args' = [s |-> s]
         /\ ret' = media_de_distancias_entre_vertices_y_caras_planas_d_m(rc, s)
    /\ UNCHANGED <<rc, rdt, rv, dt, cps, datos, hilos, cargas, previa>>

Call_resistencia_punzonamiento_B_pRd ==
    /\ Ready
    /\ \E s \in Entrada_s :
         /\ op' = "resistencia_punzonamiento_B_pRd"
         /\ args' = [s |-> s]
         /\ ret' = resistencia_punzonamiento_B_pRd(rc, s)
    /\ UNCHANGED <<rc, rdt, rv, dt, cps, datos, hilos, cargas, previa>>

\* The seven arguments shared by the three bearing-resistance methods.
ArgsF_bRd ==
    [e_1 : Distancias, e_2 : Distancias, p_1 : Distancias, p_2 : Distancias,
     d_0 : Taladros, posicion_k1 : Posiciones, posicion_ad : Posiciones]

Call_capacidad_resistente_F_bRd ==
    /\ Ready
    /\ \E a \in ArgsF_bRd :
         /\ op' = "capacidad_resistente_F_bRd"
         /\ args' = a
         /\ ret' = capacidad_resistente_F_bRd(rc, a.e_1, a.e_2, a.p_1, a.p_2, a.d_0,
                                              a.posicion_k1, a.posicion_ad)
    /\ UNCHANGED <<rc, rdt, rv, dt, cps, datos, hilos, cargas, previa>>

Call_capacidad_resistente_taladro_holgura_F_bRd ==
    /\ Ready
    /\ \E a \in ArgsF_bRd :
         /\ op' = "capacidad_resistente_taladro_holgura_F_bRd"
         /\ args' = a
         /\ ret' = capacidad_resistente_taladro_holgura_F_bRd(
                      rc, a.e_1, a.e_2, a.p_1, a.p_2, a.d_0, a.posicion_k1, a.posicion_ad)
    /\ UNCHANGED <<rc, rdt, rv, dt, cps, datos, hilos, cargas, previa>>

Call_capacidad_resistente_taladro_rasgado_F_bRd ==
    /\ Ready
    /\ \E a \in ArgsF_bRd :
         /\ op' = "capacidad_resistente_taladro_rasgado_F_bRd"
         /\ args' = a
         /\ ret' = capacidad_resistente_taladro_rasgado_F_bRd(
                      rc, a.e_1, a.e_2, a.p_1, a.p_2, a.d_0, a.posicion_k1, a.posicion_ad)
    /\ UNCHANGED <<rc, rdt, rv, dt, cps, datos, hilos, cargas, previa>>

(***************************************************************************)
(* Thin-gauge engine and validity ranges.  The methods take no arguments:  *)
(* they read the fields of the object.                                     *)
(***************************************************************************)
New_ResistenciasDisenoTornillos ==
    /\ NoObjects
    /\ \E metrica \in Entrada_metrica, grado \in Grados_1_3, d_0 \in Taladros_1_3, t \in Espesores, g_M2 \in Entrada_g_M2_1_3 :
         LET r == ResistenciasDisenoTornillos(metrica[1], metrica[2], grado, d_0, t, R(450), g_M2)
         IN  /\ rdt' = r.self
             /\ op' = "ResistenciasDisenoTornillos.__init__"
             /\ args' = r.self
             /\ ret' = r.res
    /\ UNCHANGED <<rc, rv, dt, cps, datos, hilos, cargas, previa>>

Ready_rdt == rdt # NoObject /\ op \in {"none", "ResistenciasDisenoTornillos.__init__"}

\* Variant: a call leaves the stored thickness rounded down to whole
\* millimetres.
Call_rdt_mut(metodo, resultado) ==
    /\ Ready_rdt
    /\ op' = metodo
    /\ args' = <<>>
    /\ ret' = resultado
    /\ rdt' = [rdt EXCEPT !.t = R(rdt.t[1] \div rdt.t[2])]
    /\ UNCHANGED <<rc, rv, dt, cps, datos, hilos, cargas, previa>>

Call_rdt(metodo, resultado) ==
    /\ Ready_rdt
    /\ op' = metodo
    /\ args' = <<>>
    /\ ret' = resultado
    /\ UNCHANGED <<rc, rdt, rv, dt, cps, datos, hilos, cargas, previa>>

Call_coeficiente_alfa_b_1_3 ==
    Call_rdt("ResistenciasDisenoTornillos.coeficiente_alfa_b", coeficiente_alfa_b_1_3(rdt))

Call_coeficiente_k_t ==
    Call_rdt("ResistenciasDisenoTornillos.coeficiente_k_t", coeficiente_k_t(rdt))

Call_capacidad_resitente_F_bRd ==
    Call_rdt("ResistenciasDisenoTornillos.capacidad_resitente_F_bRd", capacidad_resitente_F_bRd(rdt))

Call_area_transversal_neta ==
    Call_rdt("ResistenciasDisenoTornillos.area_transversal_neta", area_transversal_neta(rdt))

Call_relacion_tornillos_seccion_neta_entre_tornillos_totales ==
    Call_rdt("ResistenciasDisenoTornillos.relacion_tornillos_seccion_neta_entre_tornillos_totales",
             relacion_tornillos_seccion_neta_entre_tornillos_totales(rdt))

Call_coeficiente_u ==
    Call_rdt("ResistenciasDisenoTornillos.coeficiente_u", coeficiente_u(rdt))

Call_capacidad_resistente_area_transversal_neta_F_nRd ==
    Call_rdt("ResistenciasDisenoTornillos.capacidad_resistente_area_transversal_neta_F_nRd",
             capacidad_resistente_area_transversal_neta_F_nRd(rdt))

Call_limite_elastico_tornillo_f_yb ==
    Call_rdt("ResistenciasDisenoTornillos.limite_elastico_tornillo_f_yb",
             limite_elastico_tornillo_f_yb(rdt))

Call_resistencia_ultima_traccion_tornillo_f_ub ==
    Call_rdt("ResistenciasDisenoTornillos.resistencia_ultima_traccion_tornillo_f_ub",
             resistencia_ultima_traccion_tornillo_f_ub(rdt))

Call_resistencia_cortante_F_vRd ==
    Call_rdt("ResistenciasDisenoTornillos.resistencia_cortante_F_vRd", resistencia_cortante_F_vRd(rdt))

Call_resistencia_traccion_F_tRd_1_3 ==
    Call_rdt("ResistenciasDisenoTornillos.resistencia_traccion_F_tRd", resistencia_traccion_F_tRd_1_3(rdt))

New_RangoValidez ==
    /\ NoObjects
    /\ \E d_0 \in Taladros_RangoValidez :
         /\ rv' = RangoValidez(d_0)
         /\ op' = "RangoValidez.__init__"
         /\ args' = [d_0 |-> d_0]
         /\ ret' = Return(NoVal, <<>>)
    /\ UNCHANGED <<rc, rdt, dt, cps, datos, hilos, cargas, previa>>

Ready_rv == rv # NoObject /\ op \in {"none", "RangoValidez.__init__"}

Call_rv(metodo, resultado) ==
    /\ Ready_rv
    /\ op' = metodo
    /\ args' = <<>>
    /\ ret' = resultado
    /\ UNCHANGED <<rc, rdt, rv, dt, cps, datos, hilos, cargas, previa>>

Call_rango_validez_e_1 == Call_rv("RangoValidez.rango_validez_e_1", rango_validez_e_1(rv))

Call_rango_validez_e_2 == Call_rv("RangoValidez.rango_validez_e_2", rango_validez_e_2(rv))

Call_rango_validez_p_1 == Call_rv("RangoValidez.rango_validez_p_1", rango_validez_p_1(rv))

Call_rango_validez_p_2 == Call_rv("RangoValidez.rango_validez_p_2", rango_validez_p_2(rv))

(***************************************************************************)
(* Hole layout.                                                            *)
(***************************************************************************)
New_DisposicionTaladros ==
    /\ NoObjects
    /\ \E d_0 \in Taladros_DisposicionTaladros, t \in Espesores_DisposicionTaladros :
         LET r == DisposicionTaladros(d_0, t)
         IN  /\ dt' = r.self
             /\ op' = "DisposicionTaladros.__init__"
             /\ args' = [d_0 |-> d_0, t |-> t]
             /\ ret' = r.res
    /\ UNCHANGED <<rc, rdt, rv, cps, datos, hilos, cargas, previa>>

Ready_dt == dt # NoObject /\ op \in {"none", "DisposicionTaladros.__init__"}

Call_DisposicionTaladros ==
    /\ Ready_dt
    /\ \E metodo \in DOMAIN Metodos_DisposicionTaladros(dt) :
         /\ op' = "DisposicionTaladros." \o metodo
         /\ args' = <<>>
         /\ ret' = Metodos_DisposicionTaladros(dt)[metodo]
    /\ UNCHANGED <<rc, rdt, rv, dt, cps, datos, hilos, cargas, previa>>

(***************************************************************************)
(* Partial safety factors.                                                 *)
(***************************************************************************)
\* The nine accessors, each with the outcome of calling it on self.
Metodos_gamma(self) ==
    [gamma_M2 |-> gamma_M2(self),
     gamma_M3 |-> gamma_M3(self),
     gamma_M3ser |-> gamma_M3ser(self),
     gamma_M4 |-> gamma_M4(self),
     gamma_M5 |-> gamma_M5(self),
     gamma_M6ser |-> gamma_M6ser(self),
     gamma_M7 |-> gamma_M7(self),
     gamma_Mc_permanente_transitoria |-> gamma_Mc_permanente_transitoria(self),
     gamma_Mc_accidental |-> gamma_Mc_accidental(self)]

New_DatosCoeficientesParcialesSeguridad ==
    /\ NoObjects
    /\ \E archivo \in Entrada_json :
         LET r == DatosCoeficientesParcialesSeguridad(archivo)
         IN  /\ cps' = r.self
             /\ op' = "DatosCoeficientesParcialesSeguridad.__init__"
             /\ args' = [archivo |-> archivo]
             /\ ret' = r.res
    /\ UNCHANGED <<rc, rdt, rv, dt, datos, hilos, cargas, previa>>

Ready_cps ==
    cps # NoObject /\ op \in {"none", "DatosCoeficientesParcialesSeguridad.__init__"}

Call_cps(metodo, argumentos, resultado) ==
    /\ Ready_cps
    /\ op' = metodo
    /\ args' = argumentos
    /\ ret' = resultado
    /\ UNCHANGED <<rc, rdt, rv, dt, cps, datos, hilos, cargas, previa>>

Call_obtener_coeficiente ==
    \E clave \in Entrada_clave :
        Call_cps("DatosCoeficientesParcialesSeguridad.obtener_coeficiente",
                 [clave |-> clave], obtener_coeficiente(cps, clave))

Call_gamma ==
    /\ Ready_cps
    /\ \E metodo \in DOMAIN Metodos_gamma(cps) :
         Call_cps("DatosCoeficientesParcialesSeguridad." \o metodo, <<>>,
                  Metodos_gamma(cps)[metodo])

(***************************************************************************)
(* Reference-data accessors.  An accessor is built by the main program;    *)
(* __init__ loads nothing.  A lookup is run by a thread in the steps of    *)
(* _load_dataframe: the test of the cache, the read of the table, the      *)
(* store into the cache, and the return of the cache followed by the       *)
(* selection of the value.  The accessors are built while the main program *)
(* holds no outcome of a call on another object.                           *)
(***************************************************************************)
NoEngines ==
    rc = NoObject /\ rdt = NoObject /\ rv = NoObject /\ dt = NoObject /\ cps = NoObject

\* The next accessor takes the first free place.  The accessors of one run
\* are made with the same arguments (one steel and thickness, looked up
\* again for each bolt of a joint): accessors share nothing, so accessors of
\* different steels add no behaviour.
FreeSlot(a) == datos[a] = NoObject /\ \A b \in 1..(a - 1) : datos[b] # NoObject

SameArguments(a, nuevo) ==
    IF a = 1
    THEN TRUE
    ELSE /\ datos[1].clase = nuevo.clase
         /\ datos[1].acero = nuevo.acero
         /\ datos[1].t = nuevo.t

New_DatosEN1993_1_1 ==
    /\ NoEngines /\ op = "none"
    /\ \E a \in 1..MaxDatos, e \in Entrada_acero :
         /\ FreeSlot(a)
         /\ SameArguments(a, DatosEN1993_1_1(e[1], e[2]))
         /\ datos' = [datos EXCEPT ![a] = DatosEN1993_1_1(e[1], e[2])]
    /\ UNCHANGED <<rc, rdt, rv, dt, cps, hilos, cargas, op, args, ret, previa>>

New_DatosEN1993_1_8 ==
    /\ NoEngines /\ op = "none"
    /\ \E a \in 1..MaxDatos :
         /\ FreeSlot(a)
         /\ SameArguments(a, DatosEN1993_1_8)
         /\ datos' = [datos EXCEPT ![a] = DatosEN1993_1_8]
    /\ UNCHANGED <<rc, rdt, rv, dt, cps, hilos, cargas, op, args, ret, previa>>

\* A thread calls a lookup method of an accessor; every lookup begins with
\* df = self._load_dataframe().  Which method it is, and with which grade,
\* plays no part before _load_dataframe returns, and is drawn there.
Call_lookup(h) ==
    /\ hilos[h].pc = "idle"
    /\ \E a \in 1..MaxDatos :
         /\ datos[a] # NoObject
         /\ hilos' = [hilos EXCEPT ![h] = [Idle EXCEPT !.pc = "if", !.a = a]]
    /\ UNCHANGED <<rc, rdt, rv, dt, cps, datos, cargas, op, args, ret, previa>>

\* if self._df_cache is None:
Load_if(h) ==
    /\ hilos[h].pc = "if"
    /\ hilos' = [hilos EXCEPT ![h].pc =
                    IF datos[hilos[h].a].df_cache = None THEN "sql_to_df" ELSE "return"]
    /\ UNCHANGED <<rc, rdt, rv, dt, cps, datos, cargas, op, args, ret, previa>>

\* sql_pd = self.sql_pd(...); sql_pd.sql_to_df()
Load_sql_to_df(h) ==
    /\ hilos[h].pc = "sql_to_df"
    /\ LET tabla == datos[hilos[h].a].tabla
       IN  /\ cargas' = [cargas EXCEPT ![tabla] = @ + 1]
           /\ hilos' = [hilos EXCEPT ![h].pc = "store",
                                     ![h].df = sql_to_df(tabla, cargas[tabla] + 1)]
    /\ UNCHANGED <<rc, rdt, rv, dt, cps, datos, op, args, ret, previa>>

\* self._df_cache = <the DataFrame just read>
Load_store(h) ==
    /\ hilos[h].pc = "store"
    /\ datos' = [datos EXCEPT ![hilos[h].a].df_cache = hilos[h].df]
    /\ hilos' = [hilos EXCEPT ![h].pc = "return", ![h].df = None]
    /\ UNCHANGED <<rc, rdt, rv, dt, cps, cargas, op, args, ret, previa>>

\* return self._df_cache, and the rest of the lookup on that DataFrame.
Load_return(h) ==
    /\ hilos[h].pc = "return"
    /\ LET self == datos[hilos[h].a]
           df == self.df_cache
       IN  \E metodo \in Metodos(self) :
             \E grado \in IF self.clase = "DatosEN1993_1_8" THEN Entrada_grado_datos ELSE {""} :
               hilos' = [hilos EXCEPT ![h].pc = "done", ![h].df = df,
                                      ![h].metodo = metodo, ![h].grado = grado,
                                      ![h].ret = Lookup(self, metodo, grado, df)]
    /\ UNCHANGED <<rc, rdt, rv, dt, cps, datos, cargas, op, args, ret, previa>>

\* The caller has used the result of the lookup.
Drop_lookup(h) ==
    /\ hilos[h].pc = "done"
    /\ hilos' = [hilos EXCEPT ![h] = Idle]
    /\ UNCHANGED <<rc, rdt, rv, dt, cps, datos, cargas, op, args, ret, previa>>

\* The caller has used the outcome of the last call and drops it; the object
\* stays as it is.
Drop_result ==
    /\ ~NoEngines
    /\ op # "none"
    /\ op' = "none"
    /\ args' = <<>>
    /\ ret' = NoCall
    /\ UNCHANGED <<rc, rdt, rv, dt, cps, datos, hilos, cargas, previa>>

\* The caller keeps the outcome of the last call on the engine, the validity
\* range or the hole layout (a call without arguments or with one flag) in
\* place of the one kept before, and goes on.
Keep_result ==
    /\ rc # NoObject \/ rdt # NoObject \/ rv # NoObject \/ dt # NoObject
    /\ op \notin {"none", "__init__", "ResistenciasDisenoTornillos.__init__",
                  "RangoValidez.__init__", "DisposicionTaladros.__init__"}
    /\ DOMAIN args \subseteq {"plano_cortante_atraviesa_rosca", "cabeza_avellanada"}
    /\ previa' = [op |-> op, args |-> args, ret |-> ret]
    /\ op' = "none"
    /\ args' = <<>>
    /\ ret' = NoCall
    /\ UNCHANGED <<rc, rdt, rv, dt, cps, datos, hilos, cargas>>

Next ==
    \/ New_ResistenciaCalculo
    \/ Drop_result
    \/ Call_coeficiente_cortante_alfa_v
    \/ Call_resistencia_cortante
    \/ Call_coeficiente_k_1
    \/ Call_coeficiente_alfa_d
    \/ Call_coeficiente_alfa_b
    \/ Call_capacidad_resistente_F_bRd
    \/ Call_capacidad_resistente_taladro_holgura_F_bRd
    \/ Call_capacidad_resistente_taladro_rasgado_F_bRd
    \/ Call_coeficiente_k_2
    \/ Call_resistencia_traccion_F_tRd
    \/ Call_media_de_distancias_entre_vertices_y_caras_planas_d_m
    \/ Call_resistencia_punzonamiento_B_pRd
    \/ New_ResistenciasDisenoTornillos
    \/ Call_coeficiente_alfa_b_1_3
    \/ Call_coeficiente_k_t
    \/ Call_capacidad_resitente_F_bRd
    \/ Call_area_transversal_neta
    \/ Call_relacion_tornillos_seccion_neta_entre_tornillos_totales
    \/ Call_coeficiente_u
    \/ Call_capacidad_resistente_area_transversal_neta_F_nRd
    \/ Call_limite_elastico_tornillo_f_yb
    \/ Call_resistencia_ultima_traccion_tornillo_f_ub
    \/ Call_resistencia_cortante_F_vRd
    \/ Call_resistencia_traccion_F_tRd_1_3
    \/ New_RangoValidez
    \/ Call_rango_validez_e_1
    \/ Call_rango_validez_e_2
    \/ Call_rango_validez_p_1
    \/ Call_rango_validez_p_2
    \/ New_DatosCoeficientesParcialesSeguridad
    \/ Call_obtener_coeficiente
    \/ Call_gamma
    \/ New_DisposicionTaladros
    \/ Call_DisposicionTaladros

Spec == Init /\ [][Next]_vars

\* The engines, the validity range and the hole layout with a caller that
\* keeps results.
NextFrame ==
    \/ New_ResistenciaCalculo
    \/ Drop_result
    \/ Call_coeficiente_cortante_alfa_v
    \/ Call_resistencia_cortante
    \/ Call_coeficiente_k_1
    \/ Call_coeficiente_alfa_d
    \/ Call_coeficiente_alfa_b
    \/ Call_capacidad_resistente_F_bRd
    \/ Call_capacidad_resistente_taladro_holgura_F_bRd
    \/ Call_capacidad_resistente_taladro_rasgado_F_bRd
    \/ Call_coeficiente_k_2
    \/ Call_resistencia_traccion_F_tRd
    \/ Call_media_de_distancias_entre_vertices_y_caras_planas_d_m
    \/ Call_resistencia_punzonamiento_B_pRd
    \/ New_ResistenciasDisenoTornillos
    \/ Call_coeficiente_alfa_b_1_3
    \/ Call_coeficiente_k_t
    \/ Call_capacidad_resitente_F_bRd
    \/ Call_area_transversal_neta
    \/ Call_relacion_tornillos_seccion_neta_entre_tornillos_totales
    \/ Call_coeficiente_u
    \/ Call_capacidad_resistente_area_transversal_neta_F_nRd
    \/ Call_limite_elastico_tornillo_f_yb
    \/ Call_resistencia_ultima_traccion_tornillo_f_ub
    \/ Call_resistencia_cortante_F_vRd
    \/ Call_resistencia_traccion_F_tRd_1_3
    \/ New_RangoValidez
    \/ Call_rango_validez_e_1
    \/ Call_rango_validez_e_2
    \/ Call_rango_validez_p_1
    \/ Call_rango_validez_p_2
    \/ New_DisposicionTaladros
    \/ Call_DisposicionTaladros
    \/ Keep_result

SpecFrame == Init /\ [][NextFrame]_vars

\* The reference data on their own: accessors and the threads that use them.
NextDatos ==
    \/ New_DatosEN1993_1_1
    \/ New_DatosEN1993_1_8
    \/ \E h \in Hilos : Call_lookup(h)
    \/ \E h \in Hilos : Load_if(h)
    \/ \E h \in Hilos : Load_sql_to_df(h)
    \/ \E h \in Hilos : Load_store(h)
    \/ \E h \in Hilos : Load_return(h)
    \/ \E h \in Hilos : Drop_lookup(h)

SpecDatos == Init /\ [][NextDatos]_vars

(***************************************************************************)
(* Properties.                                                             *)
(***************************************************************************)
Positive(x) == QLt(R(0), x)

\* alpha.d as table 3.4 gives it, for the two positions along the load.
Tabla_alfa_d(e_1, p_1, d_0, posicion) ==
    IF posicion = "end"
    THEN QDiv(e_1, QMul(R(3), d_0))
    ELSE QSub(QDiv(p_1, QMul(R(3), d_0)), Q(1, 4))

\* C1: coeficiente_alfa_b, called with d_0 > 0 and position end or inner,
\* returns min(alpha.d, f_ub/f_u, 1.0); the value returned is at most 1.0 and
\* at most f_ub/f_u.
C1_alfa_b_capped ==
    (/\ op = "coeficiente_alfa_b"
     /\ Positive(args.d_0)
     /\ args.posicion \in {"end", "inner"})
    => /\ ret.kind = "return"
       /\ ret.val = QMin3(Tabla_alfa_d(args.e_1, args.p_1, args.d_0, args.posicion),
                          QDiv(rc.f_ub, rc.f_u), R(1))
       /\ QLe(ret.val, R(1))
       /\ QLe(ret.val, QDiv(rc.f_ub, rc.f_u))

\* An end bolt whose e_1/(3 d_0) exceeds both caps, with the bolt weaker than
\* the plate: the strength ratio governs.
C1_witness ==
    /\ op = "coeficiente_alfa_b"
    /\ args.posicion = "end"
    /\ Positive(args.d_0)
    /\ QLt(R(1), QDiv(args.e_1, QMul(R(3), args.d_0)))
    /\ QLt(QDiv(rc.f_ub, rc.f_u), R(1))
    /\ ret.kind = "return"
    /\ ret.val = QDiv(rc.f_ub, rc.f_u)

\* The explicit position error of the source: ValueError with the message of
\* a position check.
InvalidPositionError(r) ==
    /\ r.kind = "raise"
    /\ r.exc = "ValueError"
    /\ r.msg \in {":( Posicion no valida. Debe ser edge o inner.",
                  "Posicion no valida. Debe ser end o inner.",
                  "Posicion no valida. Debe ser edge o inner."}

\* C2: every coefficient function that takes a position tag (coeficiente_k_1
\* with edge/inner, coeficiente_alfa_d and coeficiente_alfa_b with end/inner),
\* called with d_0 > 0 and a tag outside its pair, fails with an explicit
\* invalid-position error and returns no value.
C2_invalid_position_raises ==
    /\ (/\ op = "coeficiente_k_1"
        /\ Positive(args.d_0)
        /\ args.posicion \notin {"edge", "inner"})
       => InvalidPositionError(ret)
    /\ (/\ op \in {"coeficiente_alfa_d", "coeficiente_alfa_b"}
        /\ Positive(args.d_0)
        /\ args.posicion \notin {"end", "inner"})
       => InvalidPositionError(ret)

\* C3: for every argument tuple the oversized-hole and the slotted-hole
\* variants either both return a value or both fail with the same kind of
\* error.
C3_same_validation ==
    op = "capacidad_resistente_taladro_holgura_F_bRd"
    => LET other == capacidad_resistente_taladro_rasgado_F_bRd(
                       rc, args.e_1, args.e_2, args.p_1, args.p_2, args.d_0,
                       args.posicion_k1, args.posicion_ad)
       IN  /\ ret.kind = other.kind
           /\ ret.exc = other.exc

\* C4: coeficiente_cortante_alfa_v on an object whose grade is outside table
\* 3.1 fails with an explicit error and returns no coefficient, whichever
\* value the shear-plane flag has.
C4_invalid_grade_raises ==
    (op = "coeficiente_cortante_alfa_v" /\ rc.grado \notin Grados)
    => /\ ret.kind = "raise"
       /\ ret.exc = "ValueError"

\* C5: for every grade of table 3.1, alpha.v = 0.6 when the shear plane avoids
\* the thread; when it crosses the thread, 0.6 for 4.6, 5.6, 8.8 and 0.5 for
\* 4.8, 5.8, 6.8, 10.9.
C5_alfa_v_table ==
    (op = "coeficiente_cortante_alfa_v" /\ rc.grado \in Grados)
    => /\ ret.kind = "return"
       /\ ~args.plano_cortante_atraviesa_rosca => ret.val = Q(3, 5)
       /\ (args.plano_cortante_atraviesa_rosca /\ rc.grado \in {"4.6", "5.6", "8.8"})
          => ret.val = Q(3, 5)
       /\ (args.plano_cortante_atraviesa_rosca
           /\ rc.grado \in {"4.8", "5.8", "6.8", "10.9"})
          => ret.val = Q(1, 2)

C5_witness ==
    /\ op = "coeficiente_cortante_alfa_v"
    /\ rc.grado = "10.9"
    /\ args.plano_cortante_atraviesa_rosca
    /\ ret.kind = "return"
    /\ ret.val = Q(1, 2)

\* C6: resistencia_cortante returns alpha.v f_ub A_eff / g_M2, with A_eff = A_s
\* when the shear plane crosses the thread and A otherwise, and alpha.v the
\* value of coeficiente_cortante_alfa_v for the same flag; for A = 314,
\* A_s = 245, grade 8.8, f_ub = 800, g_M2 = 1.25 and the shear plane through
\* the thread the result is 94080 N.
C6_F_vRd ==
    op = "resistencia_cortante"
    => LET plano == args.plano_cortante_atraviesa_rosca
           alfa_v == coeficiente_cortante_alfa_v(rc, plano)
           A_eff == IF plano THEN rc.A_s ELSE rc.A
       IN  /\ alfa_v.kind = "return"
              => /\ ret.kind = "return"
                 /\ ret.val = QDiv(QMul(QMul(alfa_v.val, rc.f_ub), A_eff), rc.g_M2)
           /\ (/\ plano
               /\ rc.grado = "8.8"
               /\ rc.f_ub = R(800)
               /\ rc.A = R(314)
               /\ rc.A_s = R(245)
               /\ rc.g_M2 = Q(5, 4))
              => ret.val = R(94080)

C6_witness ==
    /\ op = "resistencia_cortante"
    /\ args.plano_cortante_atraviesa_rosca
    /\ rc.grado = "8.8"
    /\ rc.f_ub = R(800)
    /\ rc.A_s = R(245)
    /\ rc.g_M2 = Q(5, 4)
    /\ ret.kind = "return"
    /\ ret.val = R(94080)

\* C7: coeficiente_k_1 with d_0 > 0 returns min(2.8 e_2/d_0 - 1.7,
\* 1.4 p_2/d_0 - 1.7, 2.5) for position edge and min(1.4 p_2/d_0 - 1.7, 2.5)
\* for position inner: the minimum of the candidates, never more than 2.5.
C7_k_1 ==
    (/\ op = "coeficiente_k_1"
     /\ Positive(args.d_0)
     /\ args.posicion \in {"edge", "inner"})
    => LET c_e == QSub(QDiv(QMul(Q(14, 5), args.e_2), args.d_0), Q(17, 10))
           c_p == QSub(QDiv(QMul(Q(7, 5), args.p_2), args.d_0), Q(17, 10))
       IN  /\ ret.kind = "return"
           /\ args.posicion = "edge" => ret.val = QMin3(c_e, c_p, Q(5, 2))
           /\ args.posicion = "inner" => ret.val = QMin(c_p, Q(5, 2))
           /\ QLe(ret.val, Q(5, 2))
           /\ QLe(ret.val, c_p)
           /\ args.posicion = "edge" => QLe(ret.val, c_e)

\* An edge bolt whose pitch candidate governs, below the edge candidate and
\* below 2.5.
C7_witness ==
    /\ op = "coeficiente_k_1"
    /\ args.posicion = "edge"
    /\ Positive(args.d_0)
    /\ ret.kind = "return"
    /\ ret.val = QSub(QDiv(QMul(Q(7, 5), args.p_2), args.d_0), Q(17, 10))
    /\ QLt(ret.val, QSub(QDiv(QMul(Q(14, 5), args.e_2), args.d_0), Q(17, 10)))
    /\ QLt(ret.val, Q(5, 2))

\* C8: coeficiente_alfa_d with d_0 > 0 returns e_1/(3 d_0) for position end
\* and p_1/(3 d_0) - 1/4 for position inner.
C8_alfa_d ==
    (/\ op = "coeficiente_alfa_d"
     /\ Positive(args.d_0)
     /\ args.posicion \in {"end", "inner"})
    => /\ ret.kind = "return"
       /\ args.posicion = "end"
          => ret.val = QDiv(args.e_1, QMul(R(3), args.d_0))
       /\ args.posicion = "inner"
          => ret.val = QSub(QDiv(args.p_1, QMul(R(3), args.d_0)), Q(1, 4))

C8_witness ==
    /\ op = "coeficiente_alfa_d"
    /\ args.posicion = "inner"
    /\ Positive(args.d_0)
    /\ args.e_1 # args.p_1
    /\ ret.kind = "return"
    /\ ret.val = QSub(QDiv(args.p_1, QMul(R(3), args.d_0)), Q(1, 4))

BearingInputValid ==
    /\ Positive(args.d_0)
    /\ args.posicion_k1 \in {"edge", "inner"}
    /\ args.posicion_ad \in {"end", "inner"}

\* C10: for every valid input (d_0 > 0, posicion_k1 edge or inner, posicion_ad
\* end or inner) the oversized-hole resistance is 0.8 times and the
\* slotted-hole resistance 0.6 times the base F.b,Rd of the same arguments;
\* neither is a minimum with any other value.
C10_derating ==
    (/\ op \in {"capacidad_resistente_taladro_holgura_F_bRd",
                "capacidad_resistente_taladro_rasgado_F_bRd"}
     /\ BearingInputValid)
    => LET F_bRd == capacidad_resistente_F_bRd(
                       rc, args.e_1, args.e_2, args.p_1, args.p_2, args.d_0,
                       args.posicion_k1, args.posicion_ad)
       IN  /\ F_bRd.kind = "return"
           /\ ret.kind = "return"
           /\ op = "capacidad_resistente_taladro_holgura_F_bRd"
              => ret.val = QMul(Q(4, 5), F_bRd.val)
           /\ op = "capacidad_resistente_taladro_rasgado_F_bRd"
              => ret.val = QMul(Q(3, 5), F_bRd.val)

\* An oversized hole whose base resistance is the 258000 N of a bolt with
\* k_1 = 2.5 and alpha.b = 1: 206400 N.
C10_witness ==
    /\ op = "capacidad_resistente_taladro_holgura_F_bRd"
    /\ BearingInputValid
    /\ ret.kind = "return"
    /\ ret.val = R(206400)

\* The d_0 check of the source: ValueError with its message.
D0Error(r) ==
    /\ r.kind = "raise"
    /\ r.exc = "ValueError"
    /\ r.msg = ":( d_0 debe ser positivo."

MethodsWith_d_0 ==
    {"coeficiente_k_1", "coeficiente_alfa_d", "coeficiente_alfa_b",
     "capacidad_resistente_F_bRd", "capacidad_resistente_taladro_holgura_F_bRd",
     "capacidad_resistente_taladro_rasgado_F_bRd"}

\* C11 as stated: every method of the general engine that takes d_0 fails
\* with the d_0-must-be-positive error when d_0 <= 0, whatever the other
\* arguments are.
C11_original ==
    (op \in MethodsWith_d_0 /\ QLe(args.d_0, R(0))) => D0Error(ret)

\* C11 as amended: every such method fails with a ValueError when d_0 <= 0
\* and never reaches the division by d_0; the error is the d_0 error, except
\* in capacidad_resistente_taladro_rasgado_F_bRd called with a tag outside
\* its pair, whose position check comes first and raises the position error.
C11_d_0_rejected ==
    (op \in MethodsWith_d_0 /\ QLe(args.d_0, R(0)))
    => /\ ret.kind = "raise"
       /\ ret.exc = "ValueError"
       /\ IF /\ op = "capacidad_resistente_taladro_rasgado_F_bRd"
             /\ \/ args.posicion_k1 \notin {"edge", "inner"}
                \/ args.posicion_ad \notin {"end", "inner"}
          THEN InvalidPositionError(ret)
          ELSE D0Error(ret)

\* The slotted-hole variant called with d_0 = 0 and a transverse tag outside
\* its pair: the position error, not the d_0 error.
C11_witness ==
    /\ op = "capacidad_resistente_taladro_rasgado_F_bRd"
    /\ args.d_0 = R(0)
    /\ args.posicion_k1 = "end"
    /\ InvalidPositionError(ret)

\* C12: constructing ResistenciaCalculo with g_M2 <= 0 or f_u <= 0 fails with
\* ValueError and yields no object, so every object that exists has g_M2 > 0
\* and f_u > 0.
C12_constructor_rejects ==
    /\ (/\ op = "__init__"
        /\ (QLe(args.g_M2, R(0)) \/ QLe(args.f_u, R(0))))
       => /\ ret.kind = "raise"
          /\ ret.exc = "ValueError"
          /\ rc = NoObject
    /\ rc # NoObject => (Positive(rc.g_M2) /\ Positive(rc.f_u))

\* A construction with a good g_M2 and f_u = 0 that failed.
C12_witness ==
    /\ op = "__init__"
    /\ Positive(args.g_M2)
    /\ args.f_u = R(0)
    /\ ret.kind = "raise"
    /\ rc = NoObject

\* The inputs C13 speaks of: positive geometry and strengths, valid tags and
\* a grade of table 3.1.
ValidGeneralEngine == rc # NoObject /\ rc.grado \in Grados /\ Positive(rc.f_ub)

ValidThinEngine ==
    /\ rdt # NoObject
    /\ rdt.grado \in Grados
    /\ Positive(rdt.d) /\ Positive(rdt.d_0) /\ Positive(rdt.t) /\ Positive(rdt.g_M2)

NonNegative(x) == QLe(R(0), x)

\* C13: every resistance returned by either engine (bearing and its two
\* variants, net section, shear, tension) is a non-negative force for every
\* input with positive geometry and strengths, valid position tags and a
\* valid grade.
C13_non_negative ==
    /\ (/\ op \in {"resistencia_cortante", "resistencia_traccion_F_tRd"}
        /\ ValidGeneralEngine
        /\ ret.kind = "return")
       => NonNegative(ret.val)
    /\ (/\ op \in {"capacidad_resistente_F_bRd",
                   "capacidad_resistente_taladro_holgura_F_bRd",
                   "capacidad_resistente_taladro_rasgado_F_bRd"}
        /\ ValidGeneralEngine
        /\ BearingInputValid
        /\ ret.kind = "return")
       => NonNegative(ret.val)
    /\ (/\ op \in {"ResistenciasDisenoTornillos.capacidad_resitente_F_bRd",
                   "ResistenciasDisenoTornillos.resistencia_cortante_F_vRd",
                   "ResistenciasDisenoTornillos.resistencia_traccion_F_tRd"}
        /\ ValidThinEngine
        /\ ret.kind = "return")
       => NonNegative(ret.val)
    /\ (/\ op = "ResistenciasDisenoTornillos.capacidad_resistente_area_transversal_neta_F_nRd"
        /\ ValidThinEngine
        /\ ret.kind = "return")
       => \A i \in 1..Len(ret.val) : NonNegative(ret.val[i])

(***************************************************************************)
(* Thin-gauge engine (EN 1993-1-3, table 8.4).                             *)
(***************************************************************************)
\* The two numbers n1.n2 of a grade of table 3.1.
Clase(grado) ==
    CASE grado = "4.6" -> <<4, 6>>
      [] grado = "4.8" -> <<4, 8>>
      [] grado = "5.6" -> <<5, 6>>
      [] grado = "5.8" -> <<5, 8>>
      [] grado = "6.8" -> <<6, 8>>
      [] grado = "8.8" -> <<8, 8>>
      [] grado = "10.9" -> <<10, 9>>

Returns(r, v) == r.kind = "return" /\ r.val = v

\* C14: for each grade n1.n2 of the enumerated set, the thin-gauge f_yb
\* derivation returns n1 * n2 * 10 and the f_ub derivation returns n1 * 100
\* (grade 8.8: 640 and 800).
C14_f_yb_f_ub ==
    /\ (/\ op = "ResistenciasDisenoTornillos.limite_elastico_tornillo_f_yb"
        /\ rdt.grado \in Grados)
       => Returns(ret, R(Clase(rdt.grado)[1] * Clase(rdt.grado)[2] * 10))
    /\ (/\ op = "ResistenciasDisenoTornillos.resistencia_ultima_traccion_tornillo_f_ub"
        /\ rdt.grado \in Grados)
       => Returns(ret, R(Clase(rdt.grado)[1] * 100))

GradeReaders ==
    {"ResistenciasDisenoTornillos.resistencia_cortante_F_vRd",
     "ResistenciasDisenoTornillos.resistencia_traccion_F_tRd",
     "ResistenciasDisenoTornillos.resistencia_ultima_traccion_tornillo_f_ub",
     "ResistenciasDisenoTornillos.limite_elastico_tornillo_f_yb"}

\* C15: no thin-gauge operation that reads the grade (shear, tension, f_ub,
\* f_yb) returns a value for a grade outside the enumerated set: each fails
\* with an error that reaches the caller, and none prints a message first.
C15_invalid_grade_fails ==
    (op \in GradeReaders /\ rdt.grado \notin Grados)
    => (ret.kind = "raise" /\ ret.out = <<>>)

\* The general engine built from the fields of the thin-gauge object, with
\* f_ub = n1 * 100.
GeneralEngineOf(self) ==
    ResistenciaCalculo(self.d, self.A_s, self.A_s, self.grado,
                       R(Clase(self.grado)[1] * 100), self.t, self.f_u, self.g_M2).self

\* C16: for every grade of the enumerated set and every A_s and g_M2 > 0,
\* thin-gauge F.v,Rd equals the general engine's shear resistance with the
\* shear plane through the thread and f_ub = n1 * 100, and thin-gauge F.t,Rd
\* equals the general engine's tension resistance for a head that is not
\* countersunk, with the same f_ub.
C16_mirrors_general ==
    /\ (/\ op = "ResistenciasDisenoTornillos.resistencia_cortante_F_vRd"
        /\ rdt.grado \in Grados /\ Positive(rdt.g_M2))
       => /\ resistencia_cortante(GeneralEngineOf(rdt), TRUE).kind = "return"
          /\ Returns(ret, resistencia_cortante(GeneralEngineOf(rdt), TRUE).val)
    /\ (/\ op = "ResistenciasDisenoTornillos.resistencia_traccion_F_tRd"
        /\ rdt.grado \in Grados /\ Positive(rdt.g_M2))
       => /\ resistencia_traccion_F_tRd(GeneralEngineOf(rdt), FALSE).kind = "return"
          /\ Returns(ret, resistencia_traccion_F_tRd(GeneralEngineOf(rdt), FALSE).val)

\* M12 (A_s = 84), grade 8.8, g_M2 = 1.25: F.v,Rd = 0.6 * 800 * 84 / 1.25.
C16_witness ==
    /\ op = "ResistenciasDisenoTornillos.resistencia_cortante_F_vRd"
    /\ rdt.grado = "8.8"
    /\ rdt.A_s = R(84)
    /\ rdt.g_M2 = Q(5, 4)
    /\ Returns(ret, R(32256))

\* F.n,Rd as table 8.4 gives it for the ratio ri, with e_2 = 1.5 d_0 and
\* p_2 = 3 d_0.
Tabla_u(d_0) == QMin(QMul(R(2), QMul(Q(3, 2), d_0)), QMul(R(3), d_0))
Tabla_A_net(d_0, t) == QMul(QSub(QMul(R(3), d_0), d_0), t)
Tabla_F_nRd_tope(self) == QDiv(QMul(Tabla_A_net(self.d_0, self.t), self.f_u), self.g_M2)
Tabla_F_nRd(self, ri) ==
    QMin(QMul(QAdd(R(1), QMul(QMul(R(3), ri),
                              QSub(QDiv(self.d_0, Tabla_u(self.d_0)), Q(3, 10)))),
              Tabla_F_nRd_tope(self)),
         Tabla_F_nRd_tope(self))

C18_F_bRd ==
    (/\ op = "ResistenciasDisenoTornillos.capacidad_resitente_F_bRd"
     /\ rdt.d # R(0) /\ rdt.g_M2 # R(0))
    => Returns(ret, QDiv(QMul(QMul(QMul(QMul(QMul(Q(5, 2),
                                                  QMin(R(1), QDiv(rdt.d_0, QMul(R(3), rdt.d)))),
                                             coeficiente_k_t(rdt).val),
                                        rdt.f_u), rdt.d), rdt.t),
                         rdt.g_M2))

\* M4 in a 13 mm hole, t = 2: d_0/(3 d) = 13/12 is capped at 1, k_t = 1 and
\* F.b,Rd = 2.5 * 450 * 4 * 2 / 1.25 = 7200.
C18_witness ==
    /\ op = "ResistenciasDisenoTornillos.capacidad_resitente_F_bRd"
    /\ rdt.d = R(4) /\ rdt.d_0 = R(13) /\ rdt.t = R(2) /\ rdt.g_M2 = Q(5, 4)
    /\ Returns(ret, R(7200))

\* C19: k_t is (0.8 t + 1.5)/2.5 for 0.5 <= t <= 1.25 and exactly 1.0 for
\* t > 1.25; the two pieces agree at t = 1.25, so k_t never exceeds 1.0 on
\* t >= 0.5.
C19_k_t ==
    op = "ResistenciasDisenoTornillos.coeficiente_k_t"
    => /\ (QLe(Q(1, 2), rdt.t) /\ QLe(rdt.t, Q(5, 4)))
          => Returns(ret, QDiv(QAdd(QMul(Q(4, 5), rdt.t), Q(3, 2)), Q(5, 2)))
       /\ QLt(Q(5, 4), rdt.t) => Returns(ret, R(1))
       /\ rdt.t = Q(5, 4) => Returns(ret, R(1))
       /\ QLe(Q(1, 2), rdt.t) => (ret.kind = "return" /\ QLe(ret.val, R(1)))

\* t = 0.75: k_t = (0.6 + 1.5)/2.5 = 21/25, on the linear piece.
C19_witness ==
    /\ op = "ResistenciasDisenoTornillos.coeficiente_k_t"
    /\ rdt.t = Q(3, 4)
    /\ Returns(ret, Q(21, 25))

\* C20: for every d_0 > 0 the validity-range defaults are e_1 = 1.0 d_0,
\* e_2 = 1.5 d_0, p_1 = 3.0 d_0 and p_2 = 3.0 d_0.
C20_defaults ==
    (rv # NoObject /\ Positive(rv.d_0))
    => /\ op = "RangoValidez.rango_validez_e_1" => Returns(ret, rv.d_0)
       /\ op = "RangoValidez.rango_validez_e_2" => Returns(ret, QMul(Q(3, 2), rv.d_0))
       /\ op = "RangoValidez.rango_validez_p_1" => Returns(ret, QMul(R(3), rv.d_0))
       /\ op = "RangoValidez.rango_validez_p_2" => Returns(ret, QMul(R(3), rv.d_0))

\* d_0 = 13: e_2 = 19.5.
C20_witness ==
    /\ op = "RangoValidez.rango_validez_e_2"
    /\ rv # NoObject
    /\ rv.d_0 = R(13)
    /\ Returns(ret, Q(39, 2))

(***************************************************************************)
(* Tension, general engine.                                                *)
(***************************************************************************)
\* C21: the tension resistance is k_2 f_ub A_s / g_M2 with k_2 = 0.63 for a
\* countersunk head and 0.9 otherwise, so the countersunk resistance is 0.7
\* times the other one of the same bolt.
C21_F_tRd ==
    op = "resistencia_traccion_F_tRd"
    => /\ Returns(ret, QDiv(QMul(QMul(IF args.cabeza_avellanada THEN Q(63, 100) ELSE Q(9, 10),
                                      rc.f_ub), rc.A_s), rc.g_M2))
       /\ args.cabeza_avellanada
          => ret.val = QMul(Q(7, 10), resistencia_traccion_F_tRd(rc, FALSE).val)

\* Grade 8.8, A_s = 245, g_M2 = 1.25, countersunk: 0.63 * 800 * 245 / 1.25.
C21_witness ==
    /\ op = "resistencia_traccion_F_tRd"
    /\ args.cabeza_avellanada
    /\ rc.f_ub = R(800)
    /\ Returns(ret, R(98784))

(***************************************************************************)
(* Reference data (specification SpecDatos).                               *)
(***************************************************************************)
Tablas == {"EN_1993_1_1", "EN_1993_1_8_fyb_fub"}

\* C22: within a process a reference table is loaded lazily and at most
\* once: nothing is loaded when an accessor is built, the first lookup loads
\* the table once, and every later lookup, on any accessor of that table,
\* reads the cached table without a further load.
C22_loaded_once ==
    /\ (\A h \in Hilos : hilos[h] = Idle) /\ (\A a \in 1..MaxDatos : datos[a] = NoObject \/ datos[a].df_cache = None)
       => \A tabla \in Tablas : cargas[tabla] = 0
    /\ \A tabla \in Tablas : cargas[tabla] <= 1

\* The row of table 3.1 (EN 1993-1-1) for a steel and a thickness bucket.
Fila_acero(acero, tmax) ==
    CHOOSE f \in {Tabla_EN_1993_1_1[i] : i \in 1..Len(Tabla_EN_1993_1_1)} :
        f.Calidad = acero /\ f.tmax = tmax

Aceros == {Tabla_EN_1993_1_1[i].Calidad : i \in 1..Len(Tabla_EN_1993_1_1)}

Bucket(t) == IF QLe(t, R(40)) THEN 40 ELSE 80

\* A finished lookup of thread h on an accessor of class clase.
Done(h, clase) == hilos[h].pc = "done" /\ datos[hilos[h].a].clase = clase

\* C23: the steel lookup takes f_y and f_u from the same thickness bucket of
\* the given grade: the tmax = 40 row when t <= 40 (40 included) and the
\* tmax = 80 row for every t > 40.
C23_same_bucket ==
    \A h \in Hilos :
        (Done(h, "DatosEN1993_1_1") /\ datos[hilos[h].a].acero \in Aceros)
        => LET self == datos[hilos[h].a]
               fila == Fila_acero(self.acero, Bucket(self.t))
           IN  /\ hilos[h].metodo = "limite_elastico" => Returns(hilos[h].ret, R(fila.fy))
               /\ hilos[h].metodo = "resistencia_ultima_traccion"
                  => Returns(hilos[h].ret, R(fila.fu))

\* S 275 with t = 40: f_y = 275, from the 40 mm row.
C23_witness ==
    \E h \in Hilos :
        /\ Done(h, "DatosEN1993_1_1")
        /\ datos[hilos[h].a].acero = "S 275" /\ datos[hilos[h].a].t = R(40)
        /\ hilos[h].metodo = "limite_elastico"
        /\ Returns(hilos[h].ret, R(275))

Fila_grado(grado) ==
    CHOOSE f \in {Tabla_EN_1993_1_8_fyb_fub[i] : i \in 1..Len(Tabla_EN_1993_1_8_fyb_fub)} :
        f.Bolt_class = grado

Grados_tabla ==
    {Tabla_EN_1993_1_8_fyb_fub[i].Bolt_class : i \in 1..Len(Tabla_EN_1993_1_8_fyb_fub)}

Fails(r) == r.kind = "raise" /\ r.exc \in {"IndexError", "ValueError"} /\ r.val = NoVal

\* C24: a lookup for a key that is not in the table (a steel not in the steel
\* table, a bolt grade not in the bolt-grade table) fails with an error
\* raised to the caller; it never returns a default or the value of another
\* row, and a value that is returned is the one of the key's own row.
C24_absent_key_fails ==
    \A h \in Hilos :
        /\ Done(h, "DatosEN1993_1_1")
           => IF datos[hilos[h].a].acero \in Aceros
              THEN hilos[h].ret.kind = "return"
                   /\ hilos[h].ret.val \in
                        {R(Fila_acero(datos[hilos[h].a].acero, tmax).fy) : tmax \in {40, 80}}
                        \cup {R(Fila_acero(datos[hilos[h].a].acero, tmax).fu) : tmax \in {40, 80}}
              ELSE Fails(hilos[h].ret)
        /\ Done(h, "DatosEN1993_1_8")
           => IF hilos[h].grado \in Grados_tabla
              THEN Returns(hilos[h].ret,
                           IF hilos[h].metodo = "limite_elastico"
                           THEN R(Fila_grado(hilos[h].grado).fyb)
                           ELSE R(Fila_grado(hilos[h].grado).fub))
              ELSE Fails(hilos[h].ret)

\* The steel S 999 is not in the table: the lookup of f_y raises IndexError.
C24_witness ==
    \E h \in Hilos :
        /\ Done(h, "DatosEN1993_1_1")
        /\ datos[hilos[h].a].acero = "S 999"
        /\ hilos[h].metodo = "limite_elastico"
        /\ hilos[h].ret.kind = "raise" /\ hilos[h].ret.exc = "IndexError"

\* C28: when several threads call lookups on one shared accessor whose table
\* is not loaded yet, under every interleaving the table is loaded and the
\* cache written at most once, and no lookup reads a cache that is replaced
\* later: a cache once written is never written again.
C28_single_load ==
    [][/\ \A a \in 1..MaxDatos :
            (datos[a] # NoObject /\ datos[a].df_cache # None)
            => datos'[a].df_cache = datos[a].df_cache
       /\ \A tabla \in Tablas :
            (datos[2] = NoObject /\ datos'[2] = NoObject /\ cargas[tabla] >= 1)
            => cargas'[tabla] = cargas[tabla]]_vars

(***************************************************************************)
(* C25: asking for a partial safety factor whose key the loaded file does  *)
(* not have fails with a KeyError whose message names that key; each of    *)
(* the nine accessors returns the value stored under its own key; and no   *)
(* call changes the loaded coefficients.                                   *)
(***************************************************************************)
Clave_de ==
    [metodo \in {"gamma_M2", "gamma_M3", "gamma_M3ser", "gamma_M4", "gamma_M5",
                 "gamma_M6ser", "gamma_M7", "gamma_Mc_permanente_transitoria",
                 "gamma_Mc_accidental"} |->
        CASE metodo = "gamma_Mc_permanente_transitoria" -> "gamma_c_permanente_transitoria"
          [] metodo = "gamma_Mc_accidental" -> "gamma_c_accidental"
          [] OTHER -> metodo]

KeyNotFound(r, clave) ==
    /\ r.kind = "raise"
    /\ r.exc = "KeyError"
    /\ r.msg = "El coeficiente \"" \o clave \o "\" no se encuentra en el archivo JSON"

Coeficiente_de(clave) ==
    IF clave \in DOMAIN cps.coeficientes
    THEN Returns(ret, cps.coeficientes[clave])
    ELSE KeyNotFound(ret, clave)

Coeficiente_pedido ==
    /\ op = "DatosCoeficientesParcialesSeguridad.obtener_coeficiente"
         => Coeficiente_de(args.clave)
    /\ \A metodo \in DOMAIN Clave_de :
         op = "DatosCoeficientesParcialesSeguridad." \o metodo
         => Coeficiente_de(Clave_de[metodo])

\* C25: every step leaves the loaded coefficients as they are and ends with
\* the outcome the asked key calls for.
C25_coeficientes ==
    [][/\ cps # NoObject => cps' = cps
       /\ Coeficiente_pedido']_vars

C25_witness ==
    /\ cps # NoObject
    /\ cps.coeficientes = SinClave(Coeficientes_distintos, "gamma_M3ser")
    /\ op = "DatosCoeficientesParcialesSeguridad.gamma_M3ser"
    /\ KeyNotFound(ret, "gamma_M3ser")

(***************************************************************************)
(* C26: no object that carries a plate thickness t or a hole diameter d_0  *)
(* is built with t <= 0 or d_0 <= 0: the construction of                   *)
(* DisposicionTaladros, RangoValidez, ResistenciasDisenoTornillos and      *)
(* ResistenciaCalculo fails with ValueError for such values and yields no  *)
(* object.                                                                 *)
(***************************************************************************)
InvalidInputError(r) == r.kind = "raise" /\ r.exc = "ValueError"

NonPositive(x) == QLe(x, R(0))

C26_geometry_rejected ==
    /\ (/\ op = "DisposicionTaladros.__init__"
        /\ (NonPositive(args.d_0) \/ NonPositive(args.t)))
       => (InvalidInputError(ret) /\ dt = NoObject)
    /\ (op = "RangoValidez.__init__" /\ NonPositive(args.d_0))
       => (InvalidInputError(ret) /\ rv = NoObject)
    /\ (/\ op = "ResistenciasDisenoTornillos.__init__"
        /\ (NonPositive(args.d_0) \/ NonPositive(args.t)))
       => (InvalidInputError(ret) /\ rdt = NoObject)
    /\ (op = "__init__" /\ NonPositive(args.t))
       => (InvalidInputError(ret) /\ rc = NoObject)

(***************************************************************************)
(* C27.  The distance across the points of a hexagon of width s across the *)
(* flats is s / cos(30 deg), and 1.1547 < 1 / cos(30 deg) < 1.1548 because *)
(* 3 * 1.1547^2 < 4 < 3 * 1.1548^2.                                        *)
(***************************************************************************)
\* x is y / cos(30 deg) to four decimal places, for y > 0.
Entre_vertices(x, y) ==
    /\ QLe(Q(11547, 10000), QDiv(x, y))
    /\ QLe(QDiv(x, y), Q(11548, 10000))

\* C27 as first stated: media_de_distancias_entre_vertices_y_caras_planas_d_m
\* returns d_m = s / cos(30 deg), and resistencia_punzonamiento_B_pRd returns
\* 0.6 pi d_m t f_u / g_M2 with that d_m (stated for s > 0 and t > 0).
C27_original ==
    /\ (/\ op = "media_de_distancias_entre_vertices_y_caras_planas_d_m"
        /\ Positive(args.s))
       => /\ ret.kind = "return"
          /\ Entre_vertices(ret.val, args.s)
    /\ (/\ op = "resistencia_punzonamiento_B_pRd"
        /\ Positive(args.s)
        /\ Positive(rc.t))
       => /\ ret.kind = "return"
          /\ Entre_vertices(ret.val.pi_times,
                            QDiv(QMul(QMul(QMul(Q(3, 5), args.s), rc.t), rc.f_u),
                                 rc.g_M2))

\* The mean of the distance across the flats, s, and the distance across the
\* points taken as 1.1547 s.
Tabla_d_m(s) == QDiv(QAdd(s, QMul(Q(11547, 10000), s)), R(2))

\* C27: media_de_distancias_entre_vertices_y_caras_planas_d_m returns
\* d_m = 1.07735 s, the mean of s and 1.1547 s, and
\* resistencia_punzonamiento_B_pRd returns 0.6 pi d_m t f_u / g_M2 with that
\* d_m.
C27_d_m_B_pRd ==
    /\ op = "media_de_distancias_entre_vertices_y_caras_planas_d_m"
       => Returns(ret, Tabla_d_m(args.s))
    /\ op = "resistencia_punzonamiento_B_pRd"
       => /\ ret.kind = "return"
          /\ ret.val = pi(QDiv(QMul(QMul(Tabla_d_m(args.s), QMul(Q(3, 5), rc.t)),
                                    rc.f_u), rc.g_M2))

\* The M20 nut (s = 30) on the 15 mm plate of the worked example:
\* d_m = 32.3205 and B_p,Rd = 100064.268 pi = 314361 N.
C27_witness ==
    /\ op = "resistencia_punzonamiento_B_pRd"
    /\ args.s = R(30)
    /\ rc.t = R(15)
    /\ ret.kind = "return"
    /\ ret.val = pi(Q(25016067, 250))

(***************************************************************************)
(* C30: in the thin-gauge engine the net-section resistance does not       *)
(* depend on the ratio r.  For d_0 > 0, t > 0, f_u > 0 and g_M2 > 0,       *)
(* coeficiente_u returns 3 d_0, area_transversal_neta returns 2 d_0 t, and *)
(* the four entries of F.n,Rd all equal 2 d_0 t f_u / g_M2.                *)
(***************************************************************************)
PositiveThinEngine ==
    /\ rdt # NoObject
    /\ Positive(rdt.d_0) /\ Positive(rdt.t) /\ Positive(rdt.f_u) /\ Positive(rdt.g_M2)

C30_independent_of_r ==
    PositiveThinEngine
    => /\ op = "ResistenciasDisenoTornillos.coeficiente_u"
            => Returns(ret, QMul(R(3), rdt.d_0))
       /\ op = "ResistenciasDisenoTornillos.area_transversal_neta"
            => Returns(ret, QMul(QMul(R(2), rdt.d_0), rdt.t))
       /\ op = "ResistenciasDisenoTornillos.capacidad_resistente_area_transversal_neta_F_nRd"
            => /\ ret.kind = "return"
               /\ Len(ret.val) = 4
               /\ \A i \in 1..4 :
                    ret.val[i] = QDiv(QMul(QMul(QMul(R(2), rdt.d_0), rdt.t), rdt.f_u),
                                      rdt.g_M2)

\* d_0 = 13, t = 1.25, f_u = 450, g_M2 = 1.25: every entry is
\* 2 * 13 * 1.25 * 450 / 1.25 = 11700.
C30_witness ==
    /\ op = "ResistenciasDisenoTornillos.capacidad_resistente_area_transversal_neta_F_nRd"
    /\ rdt.d_0 = R(13) /\ rdt.t = Q(5, 4) /\ rdt.g_M2 = Q(5, 4)
    /\ \A i \in 1..4 : ret.val[i] = R(11700)

(***************************************************************************)
(* C29: whatever calls are made on an engine, a validity range or a hole   *)
(* layout, and whether they return or fail, every field keeps the value    *)
(* the constructor gave it; and a call repeated with the same arguments    *)
(* has the outcome the caller kept from the earlier call, whatever calls   *)
(* ran in between.                                                         *)
(***************************************************************************)
C29_frame ==
    [][/\ rc # NoObject => rc' = rc
       /\ rdt # NoObject => rdt' = rdt
       /\ rv # NoObject => rv' = rv
       /\ dt # NoObject => dt' = dt
       /\ (op' = previa'.op /\ args' = previa'.args) => ret' = previa'.ret]_vars

\* The shear resistance of a bolt whose grade is not in table 3.1 failed, was
\* kept, and the same call has failed again in the same way.
C29_witness ==
    /\ rc # NoObject
    /\ op = "resistencia_cortante"
    /\ previa.op = op
    /\ previa.args = args
    /\ ret.kind = "raise"
    /\ ret = previa.ret

====
